---------------------------- MODULE Spec2Model ----------------------------
(***************************************************************************)
(* CascadeStudio script-execution and worker-lifecycle subsystem.          *)
(*                                                                         *)
(* CascadeWorker.js  (src/unnamed/part_002, lines 1-407): the worker       *)
(*   thread: cascadeFunctions, createExecutionContext, executeCode,        *)
(*   generateMeshData and the parentPort message handler.                  *)
(* CascadeService.js (src/unnamed/part_002, lines 408-813): the            *)
(*   orchestrator: createWorker, sendWorkerMessage, executeScript,         *)
(*   importFile, exportSTEP, exportSTL, exportOBJ, terminateWorker.        *)
(*                                                                         *)
(* Numbers that the JavaScript code keeps as floats are kept here in       *)
(* thousandths (fixed point), so 0.5 is 500 and 10 is 10000.               *)
(***************************************************************************)
EXTENDS Integers, Sequences, FiniteSets, TLC

(***************************************************************************)
(* Bounds of the model.                                                    *)
(***************************************************************************)
\* operations explored together in the detailed specification Spec
NumOps == 1
\* operations explored together in the pool specification SpecPool
PoolOps == 5
\* longest script of the enumerated scripts of SpecEval
MaxStmts == 2
\* longest script of the enumerated modeling scripts of SpecMesh
MaxShapeStmts == 3
\* operations of the specification with timers that fire
LiveOps == 1
\* operations that run side by side with scripts of their own
IsoOps == 2
\* vertices of a mesh given to meshToSTL / meshToOBJ
MaxVerts == 3
\* length of the indices buffer of such a mesh
MaxIndices == 3
\* triangles of a well-formed mesh given to them
MaxTriangles == 2
\* statements of a script given to validateScript
MaxValidateStmts == 2

(***************************************************************************)
(* Program constants.                                                      *)
(***************************************************************************)
\* this.maxWorkers = 4
maxWorkers == 4
\* this.workerTimeout = 30000
workerTimeout == 30000
\* sendWorkerMessage(workerInfo, message, timeout = 10000)
sendTimeout == 10000
\* const segments = 16
segments == 16
\* one unit of the fixed-point representation of a float
Milli == 1000
\* the float NaN (no number of the model comes near it)
NaN == -999999999

(***************************************************************************)
(* JavaScript values that cross the API as JSON: numbers, booleans,        *)
(* strings (numbered) and null; and `undefined` for a missing property.    *)
(***************************************************************************)
Num(n) == [t |-> "number", v |-> n]
Bool(b) == [t |-> "boolean", v |-> IF b THEN 1 ELSE 0]
Str(k) == [t |-> "string", v |-> k]
Null == [t |-> "null", v |-> 0]
Undefined == [t |-> "undefined", v |-> 0]

\* ToNumber of a value, in thousandths (used by the arithmetic w/2)
ToNumber(x) ==
  CASE x.t = "number" -> x.v * Milli
    [] x.t = "boolean" -> x.v * Milli
    [] x.t = "null" -> 0
    [] OTHER -> NaN

\* float addition and halving, NaN-propagating
FAdd(a, b) == IF a = NaN \/ b = NaN THEN NaN ELSE a + b
FNeg(a) == IF a = NaN THEN NaN ELSE 0 - a
FHalf(a) == IF a = NaN THEN NaN ELSE a \div 2

(***************************************************************************)
(* GUI state: a JSON object, modelled as a function from the names it      *)
(* holds to their values.  g[name] of JavaScript is Lookup(g, name).       *)
(***************************************************************************)
EmptyGUI == [n \in {} |-> Undefined]
Lookup(g, name) == IF name \in DOMAIN g THEN g[name] ELSE Undefined

(***************************************************************************)
(* Scripts.  A script is a sequence of statements; each statement is one   *)
(* call of the injected vocabulary (or a throw, a loop, a syntax error).   *)
(*   Box/lit    Box(10, 10, 10);                                           *)
(*   Box/var    Box(size, size, size);   size = value of the last control  *)
(*   Sphere     Sphere(5);       Cylinder   Cylinder(5, 20);               *)
(*   Union      Union([all shapes so far]);                                *)
(*   Difference Difference(first shape, [the others]);                     *)
(*   Translate  Translate([10, 0, 5], last shape);                         *)
(*   Slider     let size = Slider(name, def, min, max);                    *)
(*   Checkbox / TextInput / Dropdown likewise                              *)
(*   log / warn / error    console.log(msg) ...                            *)
(*   throw      throw new Error(msg);      loop   while (true) {}          *)
(*   syntax     a token the parser rejects                                 *)
(*   nullDims   shape.dimensions = null;   shape = the last shape          *)
(*   Cone       Cone(5, 0, 10);       a name the worker does not inject    *)
(*   userCall   toolBox(1);           a function the script has not defined*)
(*   comment    // Box(10, 10, 10)                                         *)
(*   ref        let f = Sphere;                                            *)
(*   use        const x = name;       a name the script does not declare   *)
(***************************************************************************)
Stmt(op, arg, name, def, options, idx) ==
  [op |-> op, arg |-> arg, name |-> name, def |-> def, options |-> options, idx |-> idx]

SBox == Stmt("Box", "lit", "", Num(10), <<>>, 0)
SBoxVar == Stmt("Box", "var", "", Undefined, <<>>, 0)
SSphere == Stmt("Sphere", "lit", "", Num(5), <<>>, 0)
SCylinder == Stmt("Cylinder", "lit", "", Num(5), <<>>, 0)
SUnion == Stmt("Union", "", "", Undefined, <<>>, 0)
SDifference == Stmt("Difference", "", "", Undefined, <<>>, 0)
STranslate == Stmt("Translate", "", "", Undefined, <<>>, 0)
SSlider(name, def) == Stmt("Slider", "", name, Num(def), <<>>, 0)
SCheckbox(name, def) == Stmt("Checkbox", "", name, Bool(def), <<>>, 0)
STextInput(name, def) == Stmt("TextInput", "", name, Str(def), <<>>, 0)
\* idx = -1 stands for an omitted defaultIndex
SDropdown(name, options, idx) == Stmt("Dropdown", "", name, Undefined, options, idx)
SLog(level, msg) == Stmt(level, "", msg, Undefined, <<>>, 0)
SThrow(msg) == Stmt("throw", "", msg, Undefined, <<>>, 0)
SLoop == Stmt("loop", "", "", Undefined, <<>>, 0)
SSyntax == Stmt("syntax", "", "", Undefined, <<>>, 0)
SNullDims == Stmt("nullDims", "", "", Undefined, <<>>, 0)
SCone == Stmt("Cone", "", "", Undefined, <<>>, 0)
SUserCall == Stmt("userCall", "", "", Undefined, <<>>, 0)
SComment == Stmt("comment", "", "", Undefined, <<>>, 0)
SRef == Stmt("ref", "", "", Undefined, <<>>, 0)
SUse(name) == Stmt("use", "", name, Undefined, <<>>, 0)

Controls == {"Slider", "Checkbox", "TextInput", "Dropdown"}
LogLevels == {"log", "warn", "error"}
Primitives == {"Box", "Sphere", "Cylinder"}

\* the translation vector of the Translate statement, in thousandths
TranslateVector == <<10 * Milli, 0, 5 * Milli>>
NoTranslation == <<>>


(***************************************************************************)
(* CascadeWorker.js: cascadeFunctions.                                     *)
(***************************************************************************)
Shape(type, dims) ==
  [type |-> type, dimensions |-> dims, dimensionsNull |-> FALSE,
   translation |-> NoTranslation, children |-> <<>>]

\* Box / Sphere / Cylinder: the shape the mocked kernel class returns
MakePrimitive(op, d) ==
  CASE op = "Box" -> Shape("Box", <<d, d, d>>)
    [] op = "Sphere" -> Shape("Sphere", <<d>>)
    [] OTHER -> Shape("Cylinder", <<d, Num(20)>>)

\* Union(shapes) / Difference(base, tools): a new shape over the given ones
MakeBoolean(op, shapes) ==
  [type |-> op, dimensions |-> <<>>, dimensionsNull |-> FALSE,
   translation |-> NoTranslation,
   children |-> [k \in 1..Len(shapes) |-> k]]

\* Translate(vector, shape): sets shape.translation of the shape, in place
TranslateLast(shapes, vector) ==
  [shapes EXCEPT ![Len(shapes)].translation = vector]

\* options[defaultIndex || 0]
DropdownDefault(options, idx) ==
  LET i == IF idx <= 0 THEN 0 ELSE idx
  IN  IF i + 1 <= Len(options) THEN options[i + 1] ELSE Undefined

\* the script-declared default of a control statement
DeclaredDefault(st) ==
  IF st.op = "Dropdown" THEN DropdownDefault(st.options, st.idx) ELSE st.def

\* a control that ignores the caller's guiState
ControlValue_DefaultOnly(g, name, def) == def

\* currentGUIState[name] !== undefined ? currentGUIState[name] : defaultValue
ControlValue(g, name, def) ==
  IF Lookup(g, name) # Undefined THEN Lookup(g, name) ELSE def

(***************************************************************************)
(* CascadeWorker.js: createExecutionContext and executeCode.               *)
(* The run of a script is folded over its statements.  The accumulator     *)
(* holds the worker globals (currentShapes), the script variable `size`    *)
(* (last), the messages posted to the parent by the injected console       *)
(* (posts), the return values of the control calls (reads) and how the run *)
(* stands: "run", "fault" (an exception reached the catch), "hang" (the    *)
(* script never returns).                                                  *)
(***************************************************************************)
LogPost(level, msg) == [type |-> "log", level |-> level, message |-> msg]

\* createExecutionContext: currentGUIState = guiState; currentShapes = []
\* (oc: the kernel object initializeOpenCascade has set; reached: the names
\* outside the context that the script has got hold of)
StartRun ==
  [shapes |-> <<>>, last |-> Undefined, posts |-> <<>>, reads |-> <<>>,
   status |-> "run", error |-> "", oc |-> TRUE, reached |-> {}]

Fault(acc, msg) == [acc EXCEPT !.status = "fault", !.error = msg]

\* Object.keys(context): the parameters of new Function(..., code)
ContextKeys ==
  {"Box", "Sphere", "Cylinder", "Translate", "Union", "Difference",
   "Slider", "Checkbox", "TextInput", "Dropdown", "console"}

\* The body of new Function(...) runs in the global scope of the worker
\* thread: a name that is no parameter is looked up on its global object
\* (global.self = global), where Node.js keeps these among others.  The
\* bindings of the module (require, parentPort, oc) are not on it.
WorkerGlobals == {"process", "eval", "Function", "global", "self", "importScripts"}

NotDefined(name) ==
  CASE name = "require" -> "require is not defined"
    [] name = "parentPort" -> "parentPort is not defined"
    [] OTHER -> "name is not defined"

ExecStmt(acc, st, g) ==
  CASE st.op \in Primitives ->
         IF st.arg = "var" /\ acc.last = Undefined
         THEN Fault(acc, "size is not defined")
         ELSE IF ~acc.oc
         THEN Fault(acc, "OpenCascade not initialized")
         ELSE [acc EXCEPT !.shapes =
                 Append(@, MakePrimitive(st.op, IF st.arg = "var" THEN acc.last ELSE st.def))]
    [] st.op \in {"Union", "Difference"} ->
         [acc EXCEPT !.shapes = Append(@, MakeBoolean(st.op, acc.shapes))]
    [] st.op = "Translate" ->
         IF acc.shapes = <<>>
         THEN Fault(acc, "shape is not defined")
         ELSE [acc EXCEPT !.shapes = TranslateLast(@, TranslateVector)]
    [] st.op \in Controls ->
         LET value == ControlValue(g, st.name, DeclaredDefault(st))
         IN  [acc EXCEPT !.last = value,
                         !.reads = Append(@, [name |-> st.name, value |-> value])]
    [] st.op \in LogLevels ->
         [acc EXCEPT !.posts = Append(@, LogPost(st.op, st.name))]
    [] st.op = "nullDims" ->
         IF acc.shapes = <<>>
         THEN Fault(acc, "shape is not defined")
         ELSE [acc EXCEPT !.shapes[Len(acc.shapes)].dimensionsNull = TRUE]
    [] st.op = "Cone" -> Fault(acc, "Cone is not defined")
    [] st.op = "userCall" -> Fault(acc, "toolBox is not defined")
    [] st.op = "use" ->
         IF st.name \in ContextKeys THEN acc
         ELSE IF st.name \in WorkerGlobals
         THEN [acc EXCEPT !.reached = @ \cup {st.name}]
         ELSE Fault(acc, NotDefined(st.name))
    [] st.op = "throw" -> Fault(acc, st.name)
    [] st.op = "loop" -> [acc EXCEPT !.status = "hang"]
    [] OTHER -> acc

RECURSIVE RunFrom(_, _, _, _)
RunFrom(code, i, acc, g) ==
  IF i > Len(code) \/ acc.status # "run" THEN acc
  ELSE RunFrom(code, i + 1, ExecStmt(acc, code[i], g), g)

\* new Function(...Object.keys(context), code) throws a SyntaxError
ParseFails(code) == \E i \in 1..Len(code) : code[i].op = "syntax"

\* the run of a script in a worker whose oc is set (oc = TRUE) or still null
RunScriptIn(oc, code, g) ==
  LET start == [StartRun EXCEPT !.oc = oc]
  IN  IF ParseFails(code) THEN Fault(start, "Unexpected token")
      ELSE RunFrom(code, 1, start, g)

RunScript(code, g) == RunScriptIn(TRUE, code, g)

\* The logs array of executeCode: filled by the worker's global console.log,
\* which the script never reaches (its `console` is the injected one).
CapturedLogs(run) == <<>>

\* What executeCode returns (has: the properties the object carries), with
\* the worker globals it leaves behind and what the script did meanwhile.
executeCodeIn(oc, code, guiState) ==
  LET run == RunScriptIn(oc, code, guiState)
  IN  [returns |-> run.status # "hang",
       has |-> IF run.status = "fault" THEN {"success", "error", "logs"}
               ELSE {"success", "result", "shapes", "logs", "guiState"},
       success |-> run.status = "run",
       error |-> run.error,
       logs |-> IF run.status = "fault"
                THEN <<[level |-> "error", message |-> run.error]>>
                ELSE CapturedLogs(run),
       shapes |-> IF run.status = "fault" THEN <<>> ELSE run.shapes,
       guiState |-> IF run.status = "fault" THEN EmptyGUI ELSE guiState,
       posts |-> run.posts,
       reads |-> run.reads,
       reached |-> run.reached,
       currentShapes |-> run.shapes,
       currentGUIState |-> guiState]

\* executeCode in a worker that initializeOpenCascade has set up
executeCode(code, guiState) == executeCodeIn(TRUE, code, guiState)

(***************************************************************************)
(* CascadeWorker.js: generateMeshData.                                     *)
(***************************************************************************)
\* 1000 * sin(k * pi / 16), k = 0..31
SinTab ==
  <<0, 195, 383, 556, 707, 831, 924, 981, 1000, 981, 924, 831, 707, 556, 383, 195,
    0, -195, -383, -556, -707, -831, -924, -981, -1000, -981, -924, -831, -707,
    -556, -383, -195>>
Sin16(k) == SinTab[(k % 32) + 1]
Cos16(k) == Sin16(k + 8)
FScale(a, f) == IF a = NaN THEN NaN ELSE (a * f) \div Milli
FDiv(a, b) == IF a = NaN \/ b = NaN \/ b = 0 THEN NaN ELSE (a * Milli) \div b

\* the eight corners of the box: the sign of x, y, z of corner n (0-based)
BoxSigns ==
  << <<-1, -1, -1>>, <<1, -1, -1>>, <<1, 1, -1>>, <<-1, 1, -1>>,
     <<-1, -1, 1>>, <<1, -1, 1>>, <<1, 1, 1>>, <<-1, 1, 1>> >>
BoxIndices ==
  <<0, 1, 2, 0, 2, 3, 4, 7, 6, 4, 6, 5, 0, 4, 5, 0, 5, 1,
    2, 6, 7, 2, 7, 3, 0, 3, 7, 0, 7, 4, 1, 5, 6, 1, 6, 2>>

BoxVertices(shape) ==
  [k \in 1..24 |->
     LET n == (k - 1) \div 3
         axis == ((k - 1) % 3) + 1
         half == FHalf(ToNumber(shape.dimensions[axis]))
     IN  IF BoxSigns[n + 1][axis] = 1 THEN half ELSE FNeg(half)]

\* the coordinate `axis` (1..3) of the sphere vertex of ring i, segment j
SphereCoord(radius, i, j, axis) ==
  CASE axis = 1 -> FScale(FScale(radius, Sin16(i)), Cos16(2 * j))
    [] axis = 2 -> FScale(FScale(radius, Sin16(i)), Sin16(2 * j))
    [] OTHER -> FScale(radius, Cos16(i))

SphereVertices(shape) ==
  LET radius == ToNumber(shape.dimensions[1])
  IN  [k \in 1..(3 * (segments + 1) * (segments + 1)) |->
         LET n == (k - 1) \div 3
         IN  SphereCoord(radius, n \div (segments + 1), n % (segments + 1),
                         ((k - 1) % 3) + 1)]

SphereNormals(shape) ==
  LET radius == ToNumber(shape.dimensions[1])
      verts == SphereVertices(shape)
  IN  [k \in 1..Len(verts) |-> FDiv(verts[k], radius)]

\* first, second, first + 1, second, second + 1, first + 1 of the cell that
\* holds the k-th index
SphereCellIndex(k) ==
  LET cell == (k - 1) \div 6
      pos == (k - 1) % 6
      first == (cell \div segments) * (segments + 1) + (cell % segments)
      second == first + segments + 1
  IN  CASE pos = 0 -> first
        [] pos = 1 -> second
        [] pos = 2 -> first + 1
        [] pos = 3 -> second
        [] pos = 4 -> second + 1
        [] OTHER -> first + 1

\* a ring loop that runs to i <= segments: the last ring of cells refers to a
\* row of vertices that is not there
SphereIndices_OffByOne ==
  [k \in 1..(6 * (segments + 1) * segments) |-> SphereCellIndex(k)]

\* for (i = 0; i < segments; i++) for (j = 0; j < segments; j++)
SphereIndices ==
  [k \in 1..(6 * segments * segments) |-> SphereCellIndex(k)]

\* const [w, h, d] = shape.dimensions throws a TypeError for a Box whose
\* dimensions the script has set to null
MeshThrows(shapes) ==
  \E k \in 1..Len(shapes) : shapes[k].type = "Box" /\ shapes[k].dimensionsNull

NotIterable == "object null is not iterable"

\* the mesh of one shape, before the translation
ShapeVertices(shape) ==
  CASE shape.type = "Box" -> BoxVertices(shape)
    [] shape.type = "Sphere" -> SphereVertices(shape)
    [] OTHER -> <<0, 0, 0, Milli, 0, 0, Milli \div 2, Milli, 0>>

ShapeIndices(shape) ==
  CASE shape.type = "Box" -> BoxIndices
    [] shape.type = "Sphere" -> SphereIndices
    [] OTHER -> <<0, 1, 2>>

ShapeNormals(shape) ==
  CASE shape.type = "Box" -> [k \in 1..24 |-> 0]
    [] shape.type = "Sphere" -> SphereNormals(shape)
    [] OTHER -> <<0, 0, Milli, 0, 0, Milli, 0, 0, Milli>>

\* if (shape.translation) shapeVertices[i..i+2] += shape.translation[0..2]
ApplyTranslation(shape, verts) ==
  IF shape.translation = NoTranslation THEN verts
  ELSE [k \in 1..Len(verts) |-> FAdd(verts[k], shape.translation[((k - 1) % 3) + 1])]

\* indices pushed as they are, without the offset
OffsetIndices_NoOffset(idx, vertexOffset) == idx

\* indices.push(index + vertexOffset)
OffsetIndices(idx, vertexOffset) == [k \in 1..Len(idx) |-> idx[k] + vertexOffset]

EmptyMesh == [vertices |-> <<>>, indices |-> <<>>, normals |-> <<>>, shapeCount |-> 0]

\* shapes.forEach(...) from shape i on, the combined buffers so far in mesh
RECURSIVE MeshFrom(_, _, _, _)
MeshFrom(shapes, i, mesh, vertexOffset) ==
  IF i > Len(shapes) THEN mesh
  ELSE LET verts == ApplyTranslation(shapes[i], ShapeVertices(shapes[i]))
       IN  MeshFrom(shapes, i + 1,
             [mesh EXCEPT !.vertices = @ \o verts,
                          !.normals = @ \o ShapeNormals(shapes[i]),
                          !.indices = @ \o OffsetIndices(ShapeIndices(shapes[i]), vertexOffset)],
             vertexOffset + Len(verts) \div 3)

generateMeshData(shapes) ==
  MeshFrom(shapes, 1, [EmptyMesh EXCEPT !.shapeCount = Len(shapes)], 0)

(***************************************************************************)
(* Messages between the service and a worker.  A message is a JavaScript   *)
(* object; `has` names the properties it carries, the other fields hold    *)
(* their values (and a filler of the right type for an absent property).   *)
(***************************************************************************)
BaseMsg(type) ==
  [type |-> type, has |-> {"type"}, error |-> "", success |-> FALSE, logs |-> <<>>,
   guiState |-> EmptyGUI, shapes |-> <<>>, meshData |-> EmptyMesh, shapeCount |-> 0,
   content |-> "", level |-> "", message |-> "", code |-> <<>>, results |-> <<>>]

\* requests (CascadeService.js)
EvaluateRequest(code, guiState) ==
  [BaseMsg("Evaluate") EXCEPT !.has = {"type", "payload"}, !.code = code, !.guiState = guiState]
MeshRequest == [BaseMsg("combineAndRenderShapes") EXCEPT !.has = {"type", "payload"}]
StepRequest == [BaseMsg("saveShapeSTEP") EXCEPT !.has = {"type", "payload"}]
LoadFilesRequest(filename) ==
  [BaseMsg("loadFiles") EXCEPT !.has = {"type", "payload"}, !.results = <<filename>>]

\* responses and notifications (CascadeWorker.js)
ReadyMsg ==
  [BaseMsg("ready") EXCEPT !.has = {"type", "message"},
                           !.message = "CascadeStudio worker initialized successfully"]
LogMsg(post) ==
  [BaseMsg("log") EXCEPT !.has = {"type", "level", "message"},
                         !.level = post.level, !.message = post.message]
\* parentPort.postMessage({ type: 'Evaluate', ...result })
EvaluateResponse(r) ==
  [BaseMsg("Evaluate") EXCEPT !.has = {"type"} \cup r.has, !.success = r.success,
                              !.error = r.error, !.logs = r.logs, !.shapes = r.shapes,
                              !.guiState = r.guiState]
MeshResponse(shapes) ==
  [BaseMsg("combineAndRenderShapes") EXCEPT !.has = {"type", "meshData", "shapeCount"},
                                            !.meshData = generateMeshData(shapes),
                                            !.shapeCount = Len(shapes)]
StepResponse ==
  [BaseMsg("saveShapeSTEP") EXCEPT !.has = {"type", "content"}, !.content = "ISO-10303-21"]
LoadFilesResponse(files) ==
  [BaseMsg("loadFiles") EXCEPT !.has = {"type", "results"}, !.results = files]
UnknownTypeResponse ==
  [BaseMsg("error") EXCEPT !.has = {"type", "error"}, !.error = "Unknown message type"]
\* catch (error) { parentPort.postMessage({ type: 'error', error: error.message }) }
CaughtResponse(msg) ==
  [BaseMsg("error") EXCEPT !.has = {"type", "error"}, !.error = msg]

\* the posts of a script run, as messages, in the order they were posted
PostsAsMsgs(posts) == [k \in 1..Len(posts) |-> LogMsg(posts[k])]

\* if (response.error)
ErrorTruthy(m) == "error" \in m.has /\ m.error # ""

(***************************************************************************)
(* CascadeWorker.js: parentPort.on('message', ...).  What the worker posts *)
(* and what it becomes when it handles request m.                          *)
(***************************************************************************)
\* state: "none", "starting", "ready", "failed" (running, but its
\* initializeOpenCascade returned false: oc is null), "hung", "terminated"
WorkerState(state, shapes, gui, reads, reached) ==
  [state |-> state, currentShapes |-> shapes, currentGUIState |-> gui, reads |-> reads,
   reached |-> reached]
NoWorker == WorkerState("none", <<>>, EmptyGUI, <<>>, {})

HandleMessage(w, m) ==
  CASE m.type = "Evaluate" ->
         LET r == executeCodeIn(w.state # "failed", m.code, m.guiState)
         IN  [worker |-> WorkerState(IF r.returns THEN w.state ELSE "hung",
                                     r.currentShapes, r.currentGUIState, r.reads,
                                     r.reached),
              posted |-> PostsAsMsgs(r.posts) \o
                         (IF r.returns THEN <<EvaluateResponse(r)>> ELSE <<>>)]
    [] m.type = "combineAndRenderShapes" ->
         [worker |-> w,
          posted |-> IF MeshThrows(w.currentShapes) THEN <<CaughtResponse(NotIterable)>>
                     ELSE <<MeshResponse(w.currentShapes)>>]
    [] m.type = "loadFiles" ->
         [worker |-> w, posted |-> <<LoadFilesResponse(m.results)>>]
    [] m.type = "saveShapeSTEP" ->
         [worker |-> w, posted |-> <<StepResponse>>]
    [] OTHER -> [worker |-> w, posted |-> <<UnknownTypeResponse>>]

(***************************************************************************)
(* CascadeService.js: meshToSTL and meshToOBJ.  The text is a sequence of  *)
(* lines, each a tuple of its words.                                       *)
(***************************************************************************)
\* what reading past the end of a typed array gives (undefined)
UndefinedFloat == -999999998
\* array[i] for a 0-based i that may be NaN or out of range
At(arr, i) == IF i # NaN /\ i >= 0 /\ i < Len(arr) THEN arr[i + 1] ELSE UndefinedFloat
\* indices[i] * 3
Times3(x) == IF x = UndefinedFloat \/ x = NaN THEN NaN ELSE x * 3
\* a face index written as the mesh holds it
Plus1_NoShift(x) == IF x = UndefinedFloat \/ x = NaN THEN NaN ELSE x

\* indices[i] + 1
Plus1(x) == IF x = UndefinedFloat \/ x = NaN THEN NaN ELSE x + 1
Plus(i, k) == IF i = NaN THEN NaN ELSE i + k

\* a facet that reads the normals buffer whether it reaches the vertex or not
StlFacet_NoSubstitute(mesh, t) ==
  LET i1 == Times3(At(mesh.indices, 3 * t))
      i2 == Times3(At(mesh.indices, 3 * t + 1))
      i3 == Times3(At(mesh.indices, 3 * t + 2))
      normal == <<At(mesh.normals, i1), At(mesh.normals, Plus(i1, 1)),
                  At(mesh.normals, Plus(i1, 2))>>
      Vertex(i) == <<"vertex", At(mesh.vertices, i), At(mesh.vertices, Plus(i, 1)),
                     At(mesh.vertices, Plus(i, 2))>>
  IN  << <<"facet normal", normal[1], normal[2], normal[3]>>, <<"outer loop">>,
         Vertex(i1), Vertex(i2), Vertex(i3), <<"endloop">>, <<"endfacet">> >>

StlFacet(mesh, t) ==
  LET i1 == Times3(At(mesh.indices, 3 * t))
      i2 == Times3(At(mesh.indices, 3 * t + 1))
      i3 == Times3(At(mesh.indices, 3 * t + 2))
      normal == IF i1 # NaN /\ Len(mesh.normals) > i1
                THEN <<At(mesh.normals, i1), At(mesh.normals, i1 + 1), At(mesh.normals, i1 + 2)>>
                ELSE <<0, 0, Milli>>
      Vertex(i) == <<"vertex", At(mesh.vertices, i), At(mesh.vertices, Plus(i, 1)),
                     At(mesh.vertices, Plus(i, 2))>>
  IN  << <<"facet normal", normal[1], normal[2], normal[3]>>, <<"outer loop">>,
         Vertex(i1), Vertex(i2), Vertex(i3), <<"endloop">>, <<"endfacet">> >>

\* a loop that stops one triangle early
RECURSIVE StlFacets_StopsEarly(_, _)
StlFacets_StopsEarly(mesh, t) ==
  IF 3 * t + 3 >= Len(mesh.indices) THEN <<>>
  ELSE StlFacet(mesh, t) \o StlFacets_StopsEarly(mesh, t + 1)

\* for (let i = 0; i < indices.length; i += 3)
RECURSIVE StlFacets(_, _)
StlFacets(mesh, t) ==
  IF 3 * t >= Len(mesh.indices) THEN <<>> ELSE StlFacet(mesh, t) \o StlFacets(mesh, t + 1)

\* hasMesh: meshData is an object with vertices and indices
meshToSTL(hasMesh, mesh) ==
  IF ~hasMesh THEN [ok |-> FALSE, error |-> "Invalid mesh data for STL export", text |-> <<>>]
  ELSE [ok |-> TRUE, error |-> "",
        text |-> << <<"solid", "CascadeStudioExport">> >> \o StlFacets(mesh, 0)
                 \o << <<"endsolid", "CascadeStudioExport">> >>]

ObjFace(mesh, t) ==
  LET v1 == Plus1(At(mesh.indices, 3 * t))
      v2 == Plus1(At(mesh.indices, 3 * t + 1))
      v3 == Plus1(At(mesh.indices, 3 * t + 2))
  IN  IF Len(mesh.normals) > 0 THEN <<"f//", v1, v1, v2, v2, v3, v3>>
      ELSE <<"f", v1, v2, v3>>

meshToOBJ(hasMesh, mesh) ==
  IF ~hasMesh THEN [ok |-> FALSE, error |-> "Invalid mesh data for OBJ export", text |-> <<>>]
  ELSE LET triple(word, arr, k) == <<word, At(arr, 3 * k), At(arr, 3 * k + 1), At(arr, 3 * k + 2)>>
           nv == (Len(mesh.vertices) + 2) \div 3
           nn == (Len(mesh.normals) + 2) \div 3
           nf == (Len(mesh.indices) + 2) \div 3
       IN  [ok |-> TRUE, error |-> "",
            text |-> << <<"# CascadeStudio Generated OBJ File">> >>
                     \o [k \in 1..nv |-> triple("v", mesh.vertices, k - 1)]
                     \o [k \in 1..nn |-> triple("vn", mesh.normals, k - 1)]
                     \o [k \in 1..nf |-> ObjFace(mesh, k - 1)]]

\* meshData undefined; no codec call made
NoMeshData == [present |-> FALSE, has |-> {}, vertices |-> <<>>, indices |-> <<>>, normals |-> <<>>]
NoText == [fn |-> "off", ok |-> FALSE, error |-> "", text |-> <<>>]

\* if (!meshData || !meshData.vertices || !meshData.indices): the argument
\* m is [present, has, vertices, indices, normals], has naming its buffers
MeshGiven(m) == m.present /\ "vertices" \in m.has /\ "indices" \in m.has

\* vertices, indices, and normals = meshData.normals || []
MeshBuffers(m) ==
  [vertices |-> m.vertices, indices |-> m.indices,
   normals |-> IF "normals" \in m.has THEN m.normals ELSE <<>>, shapeCount |-> 0]

(***************************************************************************)
(* CascadeService.js: validateScript.  The text of a script is the         *)
(* sequence of the lexemes of its statements, written one after the other  *)
(* with nothing between them.                                              *)
(***************************************************************************)
\* the names of functionRegex
RegexNames ==
  {"Box", "Sphere", "Cylinder", "Cone", "Union", "Difference", "Intersection",
   "Translate", "Rotate", "Scale", "Mirror", "Extrude", "Revolve", "FilletEdges",
   "ChamferEdges", "Slider", "Checkbox", "TextInput", "Dropdown"}

Space == {" ", "\n"}

StmtText(st) ==
  CASE st.op \in RegexNames -> <<st.op, "(", "args", ")", ";">>
    [] st.op \in LogLevels -> <<"console", ".", st.op, "(", "args", ")", ";">>
    [] st.op = "throw" -> <<"throw", " ", "new", " ", "Error", "(", "args", ")", ";">>
    [] st.op = "loop" -> <<"while", " ", "(", "true", ")", " ", "{", "}">>
    [] st.op = "syntax" -> <<"@">>
    [] st.op = "nullDims" -> <<"shape", ".", "dimensions", "=", "null", ";">>
    [] st.op = "userCall" -> <<"tool", "Box", "(", "args", ")", ";">>
    [] st.op = "comment" -> <<"//", " ", "Box", "(", "args", ")", "\n">>
    [] st.op = "ref" -> <<"let", " ", "f", "=", "Sphere", ";">>
    [] st.op = "use" -> <<"const", " ", "x", "=", st.name, ";">>
    [] OTHER -> <<>>

RECURSIVE CodeText(_)
CodeText(code) ==
  IF code = <<>> THEN <<>> ELSE StmtText(Head(code)) \o CodeText(Tail(code))

\* \s*\( matches at lexeme i of the text
RECURSIVE ParenFollows(_, _)
ParenFollows(text, i) ==
  IF i > Len(text) THEN FALSE
  ELSE IF text[i] \in Space THEN ParenFollows(text, i + 1)
  ELSE text[i] = "("

\* while ((match = functionRegex.exec(code)) !== null)
\*   if (!usedFunctions.includes(match[1])) usedFunctions.push(match[1])
RECURSIVE ScanFrom(_, _, _)
ScanFrom(text, i, used) ==
  IF i > Len(text) THEN used
  ELSE IF /\ text[i] \in RegexNames
          /\ ParenFollows(text, i + 1)
          /\ \A k \in 1..Len(used) : used[k] # text[i]
       THEN ScanFrom(text, i + 1, Append(used, text[i]))
       ELSE ScanFrom(text, i + 1, used)

\* a validateScript that parses first and gives up the scan on a syntax error
validateScript_ParseFirst(code) ==
  LET errors == IF ParseFails(code)
                THEN <<[message |-> "Unexpected token", line |-> Null, column |-> Null]>>
                ELSE <<>>
  IN  [valid |-> Len(errors) = 0, errors |-> errors, warnings |-> <<>>,
       usedFunctions |-> IF ParseFails(code) THEN <<>> ELSE ScanFrom(CodeText(code), 1, <<>>)]

validateScript(code) ==
  LET errors == IF ParseFails(code)
                THEN <<[message |-> "Unexpected token", line |-> Null, column |-> Null]>>
                ELSE <<>>
  IN  [valid |-> Len(errors) = 0, errors |-> errors, warnings |-> <<>>,
       usedFunctions |-> ScanFrom(CodeText(code), 1, <<>>)]

(***************************************************************************)
(* CascadeService.js: what the operations return.                          *)
(***************************************************************************)
Kinds == {"executeScript", "importFile", "exportSTEP", "exportSTL", "exportOBJ"}

\* the value an operation resolves with (has: the defined properties)
BaseValue ==
  [has |-> {}, success |-> FALSE, meshData |-> EmptyMesh, logs |-> <<>>, shapeCount |-> 0,
   guiState |-> EmptyGUI, content |-> <<>>, contentIs |-> "", filename |-> "",
   shapeId |-> "", message |-> ""]

\* executeScript: return { success: true, meshData: meshResult.meshData, ... }
ExecuteScriptReturn(result, meshResult, guiState) ==
  [BaseValue EXCEPT
     !.has = {"success", "logs", "executionTime", "shapeCount", "guiState"}
             \cup (IF "meshData" \in meshResult.has THEN {"meshData"} ELSE {}),
     !.success = TRUE,
     !.meshData = IF "meshData" \in meshResult.has THEN meshResult.meshData ELSE EmptyMesh,
     !.logs = IF "logs" \in result.has THEN result.logs ELSE <<>>,
     !.shapeCount = IF "shapeCount" \in meshResult.has THEN meshResult.shapeCount ELSE 0,
     !.guiState = IF "guiState" \in result.has THEN result.guiState ELSE guiState]

\* importFile: shapeId: result.shapeId || filename
ImportFileReturn(result, filename) ==
  [BaseValue EXCEPT !.has = {"success", "shapeId", "message"}, !.success = TRUE,
                    !.shapeId = filename, !.message = "Successfully imported"]

\* exportSTEP: content: result.content || result
ExportSTEPReturn(result) ==
  [BaseValue EXCEPT
     !.has = {"content", "filename"}, !.filename = "export.step",
     !.contentIs = IF "content" \in result.has /\ result.content # ""
                   THEN "text" ELSE "object",
     !.content = IF "content" \in result.has /\ result.content # ""
                 THEN <<result.content>> ELSE <<result.type>>]

ExportMeshReturn(text, filename) ==
  [BaseValue EXCEPT !.has = {"content", "filename"}, !.filename = filename,
                    !.contentIs = "text", !.content = text]

\* the first request of an operation, and the one that follows its answer
FirstRequest(r) ==
  IF r.kind = "importFile" THEN LoadFilesRequest(r.filename)
  ELSE EvaluateRequest(r.code, r.guiState)

SecondRequest(kind) ==
  IF kind = "exportSTEP" THEN StepRequest ELSE MeshRequest

\* round trips an operation makes
RoundTrips(kind) == IF kind = "importFile" THEN 1 ELSE 2

\* What the operation does with the answer of its last round trip:
\* [ok, error, value] (the codec of exportSTL/exportOBJ may throw).
LastStep(r, result, last) ==
  CASE r.kind = "executeScript" ->
         [ok |-> TRUE, error |-> "", value |-> ExecuteScriptReturn(result, last, r.guiState)]
    [] r.kind = "importFile" ->
         [ok |-> TRUE, error |-> "", value |-> ImportFileReturn(last, r.filename)]
    [] r.kind = "exportSTEP" ->
         [ok |-> TRUE, error |-> "", value |-> ExportSTEPReturn(last)]
    [] r.kind = "exportSTL" ->
         LET c == meshToSTL("meshData" \in last.has, last.meshData)
         IN  [ok |-> c.ok, error |-> c.error, value |-> ExportMeshReturn(c.text, "export.stl")]
    [] OTHER ->
         LET c == meshToOBJ("meshData" \in last.has, last.meshData)
         IN  [ok |-> c.ok, error |-> c.error, value |-> ExportMeshReturn(c.text, "export.obj")]

(***************************************************************************)
(* State.  One operation of the service is one call of executeScript,      *)
(* importFile, exportSTEP, exportSTL or exportOBJ; it creates one worker,  *)
(* whose id (a fresh uuid) is identified with the operation's number.      *)
(***************************************************************************)
VARIABLES
  req,           \* req[o]: the call: kind, code, guiState, filename
  pc,            \* pc[o]: "idle", "await1", "await2", "resolved", "rejected";
                 \* "held": a caller of createWorker() holds the worker
  result,        \* result[o]: the answer of the first round trip (`result`)
  outcome,       \* outcome[o]: what the operation's promise settled with
  roundTrips,    \* roundTrips[o]: the sendWorkerMessage calls a message settled
  activeWorkers, \* this.activeWorkers: the ids it holds
  worker,        \* worker[o]: the worker thread: state and globals
  inbox,         \* inbox[o]: requests posted to the worker, not yet handled
  outbox,        \* outbox[o]: messages the worker posted, not yet delivered
  timer,         \* timer[o]: the auto-cleanup setTimeout is pending
  fnPc,          \* pure-function pipeline: "off", "input", "evaluated", "meshed"
  fnCode,        \* its script
  fnShapes,      \* the ShapeSet the script left
  fnMesh,        \* the mesh of that ShapeSet
  validation,    \* the last validateScript call: its code and what it returned
  meshData,      \* the argument of a meshToSTL / meshToOBJ call
  codecText,     \* what that call returned or threw
  http,          \* http[o]: the HTTP request a route received and its answer
  projects,      \* the projects Map of the projects router: id -> project
  reply,         \* the last response of the projects router
  now            \* the clock new Date() reads

svcVars == <<req, pc, result, outcome, roundTrips, activeWorkers, worker, inbox, outbox, timer>>
fnVars == <<fnPc, fnCode, fnShapes, fnMesh>>
libVars == <<validation, meshData, codecText>>
apiVars == <<http, projects, reply, now>>
vars == <<req, pc, result, outcome, roundTrips, activeWorkers, worker, inbox, outbox, timer,
          fnPc, fnCode, fnShapes, fnMesh, validation, meshData, codecText,
          http, projects, reply, now>>

Ops == DOMAIN pc
Awaiting == {"await1", "await2"}
Settled == {"resolved", "rejected"}
Alive == {"starting", "ready", "failed", "hung"}

TimeoutError == "Worker operation timed out"
WorkerErrorEvent == "worker error event"

Request(kind, code, guiState, filename) ==
  [kind |-> kind, code |-> code, guiState |-> guiState, filename |-> filename]

Pending == [status |-> "pending", error |-> "", has |-> {}, value |-> BaseValue]
\* resolve(value)
Resolved(value) == [status |-> "resolved", error |-> "", has |-> {"value"}, value |-> value]
\* reject(new Error(message)): the error carries the message and nothing else
Rejected(message) == [status |-> "rejected", error |-> message, has |-> {"message"}, value |-> BaseValue]

(***************************************************************************)
(* CascadeService.js: createWorker and terminateWorker.                    *)
(***************************************************************************)
\* this.activeWorkers.set(workerId, workerInfo)
createWorker(active, id) == active \cup {id}

\* a terminateWorker that forgets this.activeWorkers.delete(workerId)
terminateWorker_KeepsEntry(active, id) == active

\* this.activeWorkers.delete(workerId)
terminateWorker(active, id) == active \ {id}

\* terminate() that leaves the thread running
TerminateThread_KeepsRunning(active, w, id) == w

\* terminate() of every worker activeWorkers holds, whatever the id
TerminateThread_All(active, w, id) ==
  [o \in DOMAIN w |-> IF o \in active THEN [w[o] EXCEPT !.state = "terminated"] ELSE w[o]]

\* workerInfo.worker.terminate(), called only for an id activeWorkers holds
TerminateThread(active, w, id) ==
  IF id \in active THEN [w EXCEPT ![id].state = "terminated"] ELSE w

\* The auto-cleanup timer of a worker is set when it is created and the
\* round-trip timers after it, each for sendTimeout: it can fire before the
\* operation has settled only if it is no longer than they are together.
CleanupMayPrecede(kind) == workerTimeout <= RoundTrips(kind) * sendTimeout

(***************************************************************************)
(* Actions of the service.                                                 *)
(***************************************************************************)
\* The operation settles: its promise resolves or rejects, after the
\* finally block has run this.terminateWorker(workerInfo.id).
Settle(o, how) ==
  /\ pc' = [pc EXCEPT ![o] = how.status]
  /\ outcome' = [outcome EXCEPT ![o] = how]
  /\ activeWorkers' = terminateWorker(activeWorkers, o)
  /\ worker' = TerminateThread(activeWorkers, worker, o)
  /\ inbox' = [inbox EXCEPT ![o] = <<>>]
  /\ outbox' = [outbox EXCEPT ![o] = <<>>]

\* an operation that takes a live worker of another operation, if there is one
StartOp_SharedWorker(o) ==
  /\ pc[o] = "idle"
  /\ LET w == IF \E v \in activeWorkers : worker[v].state \in Alive
              THEN CHOOSE v \in activeWorkers : worker[v].state \in Alive
              ELSE o
     IN  /\ activeWorkers' = createWorker(activeWorkers, w)
         /\ worker' = IF w = o THEN [worker EXCEPT ![o].state = "starting"] ELSE worker
         /\ inbox' = [inbox EXCEPT ![w] = Append(@, FirstRequest(req[o]))]
  /\ timer' = [timer EXCEPT ![o] = TRUE]
  /\ pc' = [pc EXCEPT ![o] = "await1"]
  /\ UNCHANGED <<req, result, outcome, roundTrips, outbox>>
  /\ UNCHANGED fnVars
  /\ UNCHANGED libVars
  /\ UNCHANGED apiVars

\* executeScript(...) etc. up to the first await of a worker message:
\* createWorker, workerInfo.busy = true, sendWorkerMessage(first request)
StartOp(o) ==
  /\ pc[o] = "idle"
  /\ activeWorkers' = createWorker(activeWorkers, o)
  /\ worker' = [worker EXCEPT ![o].state = "starting"]
  /\ timer' = [timer EXCEPT ![o] = TRUE]
  /\ IF req[o].kind = "createWorker"
     THEN /\ inbox' = inbox
          /\ pc' = [pc EXCEPT ![o] = "held"]
     ELSE /\ inbox' = [inbox EXCEPT ![o] = <<FirstRequest(req[o])>>]
          /\ pc' = [pc EXCEPT ![o] = "await1"]
  /\ UNCHANGED <<req, result, outcome, roundTrips, outbox>>
  /\ UNCHANGED fnVars
  /\ UNCHANGED libVars
  /\ UNCHANGED apiVars

\* the request the pending sendWorkerMessage posted
CurrentRequest(o) ==
  IF pc[o] = "await1" THEN FirstRequest(req[o]).type ELSE SecondRequest(req[o].kind).type

\* worker.on('message', messageHandler): the next message of the worker
\* reaches the handler of the pending sendWorkerMessage, and the operation
\* runs on to its next await or to its end.
Deliver(o) ==
  /\ pc[o] \in Awaiting
  /\ outbox[o] # <<>>
  /\ LET m == Head(outbox[o])
         trip(how) == [request |-> CurrentRequest(o), response |-> m.type, how |-> how]
     IN  IF ErrorTruthy(m)
         THEN /\ roundTrips' = [roundTrips EXCEPT ![o] = Append(@, trip("reject"))]
              /\ Settle(o, Rejected(m.error))
              /\ UNCHANGED <<result>>
         ELSE /\ roundTrips' = [roundTrips EXCEPT ![o] = Append(@, trip("resolve"))]
              /\ IF pc[o] = "await1" /\ RoundTrips(req[o].kind) = 2
                 THEN /\ result' = [result EXCEPT ![o] = m]
                      /\ inbox' = [inbox EXCEPT ![o] = Append(@, SecondRequest(req[o].kind))]
                      /\ outbox' = [outbox EXCEPT ![o] = Tail(@)]
                      /\ pc' = [pc EXCEPT ![o] = "await2"]
                      /\ UNCHANGED <<outcome, activeWorkers, worker>>
                 ELSE LET step == LastStep(req[o], result[o], m)
                      IN  /\ Settle(o, IF step.ok THEN Resolved(step.value)
                                       ELSE Rejected(step.error))
                          /\ UNCHANGED <<result>>
  /\ UNCHANGED <<req, timer>>
  /\ UNCHANGED fnVars
  /\ UNCHANGED libVars
  /\ UNCHANGED apiVars

\* a sendWorkerMessage that sets no timer
Timeout_NoTimer(o) ==
  /\ pc[o] \in Awaiting
  /\ FALSE
  /\ UNCHANGED vars

\* setTimeout(() => reject(new Error('Worker operation timed out')), timeout)
Timeout(o) ==
  /\ pc[o] \in Awaiting
  /\ Settle(o, Rejected(TimeoutError))
  /\ UNCHANGED <<req, result, roundTrips, timer>>
  /\ UNCHANGED fnVars
  /\ UNCHANGED libVars
  /\ UNCHANGED apiVars

\* worker.on('error', errorHandler): the thread died of an uncaught error
WorkerError(o) ==
  /\ pc[o] \in Awaiting
  /\ worker[o].state \in Alive
  /\ Settle(o, Rejected(WorkerErrorEvent))
  /\ UNCHANGED <<req, result, roundTrips, timer>>
  /\ UNCHANGED fnVars
  /\ UNCHANGED libVars
  /\ UNCHANGED apiVars

\* a createWorker that sets no auto-cleanup timer
AutoCleanup_NoTimer(o) ==
  /\ timer[o]
  /\ FALSE
  /\ UNCHANGED vars

\* setTimeout(() => this.terminateWorker(workerId), this.workerTimeout)
AutoCleanup(o) ==
  /\ timer[o]
  /\ pc[o] \notin Awaiting \/ CleanupMayPrecede(req[o].kind)
  /\ timer' = [timer EXCEPT ![o] = FALSE]
  /\ activeWorkers' = terminateWorker(activeWorkers, o)
  /\ worker' = TerminateThread(activeWorkers, worker, o)
  /\ inbox' = [inbox EXCEPT ![o] = IF o \in activeWorkers THEN <<>> ELSE @]
  /\ outbox' = [outbox EXCEPT ![o] = IF o \in activeWorkers THEN <<>> ELSE @]
  /\ UNCHANGED <<req, pc, result, outcome, roundTrips>>
  /\ UNCHANGED fnVars
  /\ UNCHANGED libVars
  /\ UNCHANGED apiVars

\* cleanup(): every worker of activeWorkers is terminated, and the map cleared
Cleanup ==
  /\ activeWorkers # {}
  /\ worker' = [o \in Ops |-> IF o \in activeWorkers
                               THEN [worker[o] EXCEPT !.state = "terminated"]
                               ELSE worker[o]]
  /\ inbox' = [o \in Ops |-> IF o \in activeWorkers THEN <<>> ELSE inbox[o]]
  /\ outbox' = [o \in Ops |-> IF o \in activeWorkers THEN <<>> ELSE outbox[o]]
  /\ activeWorkers' = {}
  /\ UNCHANGED <<req, pc, result, outcome, roundTrips, timer>>
  /\ UNCHANGED fnVars
  /\ UNCHANGED libVars
  /\ UNCHANGED apiVars

(***************************************************************************)
(* Actions of a worker thread.                                             *)
(***************************************************************************)
\* initializeOpenCascade().then(success => postMessage({ type: 'ready' }))
WorkerBoot(o) ==
  /\ worker[o].state = "starting"
  /\ worker' = [worker EXCEPT ![o].state = "ready"]
  /\ outbox' = [outbox EXCEPT ![o] = Append(@, ReadyMsg)]
  /\ UNCHANGED <<req, pc, result, outcome, roundTrips, activeWorkers, inbox, timer>>
  /\ UNCHANGED fnVars
  /\ UNCHANGED libVars
  /\ UNCHANGED apiVars

\* parentPort.on('message', ...): the worker handles its next request
WorkerHandle(o) ==
  /\ worker[o].state \in {"ready", "failed"}
  /\ inbox[o] # <<>>
  /\ LET h == HandleMessage(worker[o], Head(inbox[o]))
     IN  /\ worker' = [worker EXCEPT ![o] = h.worker]
         /\ outbox' = [outbox EXCEPT ![o] = @ \o h.posted]
  /\ inbox' = [inbox EXCEPT ![o] = Tail(@)]
  /\ UNCHANGED <<req, pc, result, outcome, roundTrips, activeWorkers, timer>>
  /\ UNCHANGED fnVars
  /\ UNCHANGED libVars
  /\ UNCHANGED apiVars

\* await cascadeService.validateScript(code)
NoValidation == [called |-> FALSE, code |-> <<>>, value |-> validateScript(<<>>)]

\* a validateScript that asks a worker
ValidateScript_ViaWorker(code) ==
  /\ ~validation.called
  /\ validation' = [called |-> TRUE, code |-> code, value |-> validateScript(code)]
  /\ activeWorkers' = createWorker(activeWorkers, 0)
  /\ UNCHANGED <<req, pc, result, outcome, roundTrips, worker, inbox, outbox, timer>>
  /\ UNCHANGED fnVars
  /\ UNCHANGED <<meshData, codecText>>
  /\ UNCHANGED apiVars

\* One call in a behaviour, made at any moment: the call reads and writes
\* nothing of the service, so a second call would meet the same states.
ValidateScript(code) ==
  /\ ~validation.called
  /\ validation' = [called |-> TRUE, code |-> code, value |-> validateScript(code)]
  /\ UNCHANGED svcVars
  /\ UNCHANGED fnVars
  /\ UNCHANGED <<meshData, codecText>>
  /\ UNCHANGED apiVars

Next ==
  \/ \E o \in Ops : StartOp(o)
  \/ \E o \in Ops : Deliver(o)
  \/ \E o \in Ops : Timeout(o)
  \/ \E o \in Ops : WorkerError(o)
  \/ \E o \in Ops : AutoCleanup(o)
  \/ \E o \in Ops : WorkerBoot(o)
  \/ \E o \in Ops : WorkerHandle(o)

(***************************************************************************)
(* The pure-function pipeline: a script is evaluated (executeCode) and the *)
(* ShapeSet it leaves is tessellated (generateMeshData).                   *)
(***************************************************************************)
FnEvaluate ==
  /\ fnPc = "input"
  /\ fnShapes' = executeCode(fnCode, EmptyGUI).currentShapes
  /\ fnPc' = "evaluated"
  /\ UNCHANGED <<fnCode, fnMesh>>
  /\ UNCHANGED svcVars
  /\ UNCHANGED libVars
  /\ UNCHANGED apiVars

FnTessellate ==
  /\ fnPc = "evaluated"
  /\ fnMesh' = generateMeshData(fnShapes)
  /\ fnPc' = "meshed"
  /\ UNCHANGED <<fnCode, fnShapes>>
  /\ UNCHANGED svcVars
  /\ UNCHANGED libVars
  /\ UNCHANGED apiVars

NextMesh == FnEvaluate \/ FnTessellate

(***************************************************************************)
(* The codec called on a mesh: meshToSTL(meshData) and meshToOBJ(meshData).*)
(***************************************************************************)
CallMeshToSTL ==
  /\ codecText.fn = "none"
  /\ LET c == meshToSTL(MeshGiven(meshData), MeshBuffers(meshData))
     IN  codecText' = [fn |-> "STL", ok |-> c.ok, error |-> c.error, text |-> c.text]
  /\ UNCHANGED <<validation, meshData>>
  /\ UNCHANGED apiVars
  /\ UNCHANGED svcVars
  /\ UNCHANGED fnVars

CallMeshToOBJ ==
  /\ codecText.fn = "none"
  /\ LET c == meshToOBJ(MeshGiven(meshData), MeshBuffers(meshData))
     IN  codecText' = [fn |-> "OBJ", ok |-> c.ok, error |-> c.error, text |-> c.text]
  /\ UNCHANGED <<validation, meshData>>
  /\ UNCHANGED apiVars
  /\ UNCHANGED svcVars
  /\ UNCHANGED fnVars

NextCodec == CallMeshToSTL \/ CallMeshToOBJ

(***************************************************************************)
(* Inputs.                                                                 *)
(***************************************************************************)
SeqsUpTo(S, n) == UNION {[1..k -> S] : k \in 0..n}

\* guiState objects a caller sends
GuiSize15 == [n \in {"Size"} |-> Num(15)]
GuiAll ==
  [n \in {"Size", "On", "Label", "Mode"} |->
     CASE n = "Size" -> Num(15)
       [] n = "On" -> Bool(FALSE)
       [] n = "Label" -> Str(2)
       [] OTHER -> Str(4)]

DropdownOptions == <<Str(3), Str(4)>>

\* the scripts of the detailed specification, each with the guiStates it is run with
ProtocolInputs ==
  ({ <<SBox>>,
     <<SLog("log", "a"), SBox>>,
     <<SBox, SThrow("boom")>>,
     <<SLog("warn", "a"), SThrow("boom")>>,
     <<SBox, SLoop>>,
     <<SLog("log", "a"), SLoop>>,
     <<SBox, SNullDims>> } \X {EmptyGUI})
  \cup ({ <<SSlider("Size", 10), SBoxVar>> } \X {EmptyGUI, GuiSize15})

ProtocolRequests ==
  {Request(k, in[1], in[2], "") : k \in Kinds \ {"importFile"}, in \in ProtocolInputs}
  \cup {Request("importFile", <<>>, EmptyGUI, f) : f \in {"part.step", "notes.txt"}}

PoolRequests == {Request("importFile", <<>>, EmptyGUI, "part.step")}

EvalAlphabet ==
  { SBox, SBoxVar, STranslate,
    SSlider("Size", 10), SCheckbox("On", TRUE), STextInput("Label", 1),
    SDropdown("Mode", DropdownOptions, -1), SDropdown("Mode", DropdownOptions, 1),
    SLog("log", "a"), SLog("warn", "b"), SLog("error", "c"),
    SThrow("boom"), SLoop, SSyntax }

EvalRequests ==
  {Request("executeScript", c, g, "") :
     c \in SeqsUpTo(EvalAlphabet, MaxStmts), g \in {EmptyGUI, GuiSize15, GuiAll}}

ModelingAlphabet == {SBox, SSphere, SCylinder, SUnion, SDifference, STranslate}

\* the statements of the scripts given to validateScript
ValidateAlphabet ==
  { SBox, SSphere, SCone, SSlider("Size", 10), SLog("log", "a"), SSyntax,
    SUserCall, SComment, SRef }

ValidateInputs == SeqsUpTo(ValidateAlphabet, MaxValidateStmts)

\* operations that differ in script and guiState
IsoRequests ==
  { Request("executeScript", <<SSlider("Size", 10), SBoxVar>>, GuiSize15, ""),
    Request("exportSTEP", <<SSphere>>, EmptyGUI, "") }

\* the buffers of the meshes given to the codec: n vertices, a normals
\* buffer of len floats
CodecVertices(n) == [k \in 1..(3 * n) |-> k * Milli]
CodecNormals(len) == [k \in 1..len |-> 100 + k]

\* meshData arguments: undefined, or an object in which each buffer may be
\* absent; indices may be out of range and normals may stop at any float
CodecInputs ==
  {NoMeshData} \cup
  { [present |-> TRUE,
     has |-> (IF v >= 0 THEN {"vertices"} ELSE {}) \cup (IF i[1] THEN {"indices"} ELSE {})
             \cup (IF n >= 0 THEN {"normals"} ELSE {}),
     vertices |-> IF v >= 0 THEN CodecVertices(v) ELSE <<>>,
     indices |-> i[2],
     normals |-> IF n >= 0 THEN CodecNormals(n) ELSE <<>>] :
    v \in -1..MaxVerts,
    i \in {<<FALSE, <<>> >>} \cup ({TRUE} \X SeqsUpTo(0..MaxVerts, MaxIndices)),
    n \in -1..(3 * MaxVerts) }

\* well-formed meshes: MaxVerts vertices, up to MaxTriangles triangles of
\* three different vertices each, normals absent or one per vertex
Triangles == {t \in [1..3 -> 0..(MaxVerts - 1)] : t[1] # t[2] /\ t[2] # t[3] /\ t[1] # t[3]}

RECURSIVE Flatten(_)
Flatten(ts) == IF ts = <<>> THEN <<>> ELSE Head(ts) \o Flatten(Tail(ts))

TriangleMeshes ==
  { [present |-> TRUE,
     has |-> {"vertices", "indices"} \cup (IF n THEN {"normals"} ELSE {}),
     vertices |-> CodecVertices(MaxVerts),
     indices |-> Flatten(ts),
     normals |-> IF n THEN CodecNormals(3 * MaxVerts) ELSE <<>>] :
    ts \in SeqsUpTo(Triangles, MaxTriangles), n \in BOOLEAN }

\* the operations that run while validateScript is called
ValidateRequests ==
  { Request("importFile", <<>>, EmptyGUI, "part.step"),
    Request("executeScript", <<SBox>>, EmptyGUI, "") }

(***************************************************************************)
(* Initial states and specifications.                                      *)
(***************************************************************************)
FnOff ==
  /\ fnPc = "off"
  /\ fnCode = <<>>
  /\ fnShapes = <<>>
  /\ fnMesh = EmptyMesh

LibOff ==
  /\ validation = NoValidation
  /\ meshData = NoMeshData
  /\ codecText = NoText

\* no route of the API is called
NoReply == [status |-> 0, error |-> "", looked |-> FALSE]
ApiOff ==
  /\ http = <<>>
  /\ projects = <<>>
  /\ reply = NoReply
  /\ now = 0

\* new CascadeService(), and n calls about to be made on it
InitService(n, requests) ==
  /\ req \in [1..n -> requests]
  /\ pc = [o \in 1..n |-> "idle"]
  /\ result = [o \in 1..n |-> BaseMsg("")]
  /\ outcome = [o \in 1..n |-> Pending]
  /\ roundTrips = [o \in 1..n |-> <<>>]
  /\ activeWorkers = {}
  /\ worker = [o \in 1..n |-> NoWorker]
  /\ inbox = [o \in 1..n |-> <<>>]
  /\ outbox = [o \in 1..n |-> <<>>]
  /\ timer = [o \in 1..n |-> FALSE]
  /\ FnOff
  /\ LibOff
  /\ ApiOff

Init == InitService(NumOps, ProtocolRequests)
InitPool == InitService(PoolOps, PoolRequests)
InitEval == InitService(1, EvalRequests)
InitMesh ==
  /\ req = <<>> /\ pc = <<>> /\ result = <<>> /\ outcome = <<>> /\ roundTrips = <<>>
  /\ activeWorkers = {} /\ worker = <<>> /\ inbox = <<>> /\ outbox = <<>> /\ timer = <<>>
  /\ fnPc = "input"
  /\ fnCode \in SeqsUpTo(ModelingAlphabet, MaxShapeStmts)
  /\ fnShapes = <<>>
  /\ fnMesh = EmptyMesh
  /\ LibOff
  /\ ApiOff
InitValidate == InitService(1, ValidateRequests)
InitIso == InitService(IsoOps, IsoRequests)
InitCodec ==
  /\ req = <<>> /\ pc = <<>> /\ result = <<>> /\ outcome = <<>> /\ roundTrips = <<>>
  /\ activeWorkers = {} /\ worker = <<>> /\ inbox = <<>> /\ outbox = <<>> /\ timer = <<>>
  /\ FnOff
  /\ validation = NoValidation
  /\ meshData \in CodecInputs \cup TriangleMeshes
  /\ codecText = [NoText EXCEPT !.fn = "none"]
  /\ ApiOff
\* operations whose worker answers, faults, logs or hangs, and a caller that
\* takes a worker with createWorker() and keeps it
LiveRequests ==
  {Request("executeScript", c, EmptyGUI, "") :
     c \in {<<SBox>>, <<SBox, SThrow("boom")>>, <<SLog("log", "a"), SLoop>>, <<SBox, SLoop>>}}
  \cup { Request("exportSTL", <<SBox>>, EmptyGUI, ""),
         Request("exportSTEP", <<SBox>>, EmptyGUI, ""),
         Request("importFile", <<>>, EmptyGUI, "part.step"),
         Request("createWorker", <<>>, EmptyGUI, "") }

InitLive == InitService(LiveOps, LiveRequests)

\* the service with validateScript called at any moment
NextValidate ==
  \/ \E o \in Ops : StartOp(o)
  \/ \E o \in Ops : Deliver(o)
  \/ \E o \in Ops : Timeout(o)
  \/ \E o \in Ops : WorkerError(o)
  \/ \E o \in Ops : AutoCleanup(o)
  \/ \E o \in Ops : WorkerBoot(o)
  \/ \E o \in Ops : WorkerHandle(o)
  \/ \E code \in ValidateInputs : ValidateScript(code)

\* the service with cleanup() called at any moment
NextLive ==
  \/ \E o \in Ops : StartOp(o)
  \/ \E o \in Ops : Deliver(o)
  \/ \E o \in Ops : Timeout(o)
  \/ \E o \in Ops : WorkerError(o)
  \/ \E o \in Ops : AutoCleanup(o)
  \/ \E o \in Ops : WorkerBoot(o)
  \/ \E o \in Ops : WorkerHandle(o)
  \/ Cleanup

\* operations of every kind on the scripts of ProtocolInputs
Spec == Init /\ [][Next]_vars
\* many concurrent operations on one service
SpecPool == InitPool /\ [][Next]_vars
\* one executeScript on every script of at most MaxStmts statements
SpecEval == InitEval /\ [][Next]_vars
\* evaluate and tessellate on every modeling script of at most MaxShapeStmts statements
SpecMesh == InitMesh /\ [][NextMesh]_vars
\* validateScript on every script of at most MaxValidateStmts statements
SpecValidate == InitValidate /\ [][NextValidate]_vars
\* meshToSTL and meshToOBJ on every mesh of CodecInputs and TriangleMeshes
SpecCodec == InitCodec /\ [][NextCodec]_vars
\* operations side by side, each with its own script and guiState
SpecIso == InitIso /\ [][Next]_vars
\* the operations of LiveRequests with cleanup() called at any moment, where
\* a timer that is set and not cleared fires
SpecLive ==
  /\ InitLive
  /\ [][NextLive]_vars
  /\ \A o \in 1..LiveOps : WF_vars(Timeout(o)) /\ WF_vars(AutoCleanup(o))

(***************************************************************************)
(* Helpers of the properties.                                              *)
(***************************************************************************)
LiveWorkers == {o \in Ops : worker[o].state \in Alive}
ScriptKinds == Kinds \ {"importFile"}
\* the run of the script of operation o, as the worker makes it
RunOf(o) == RunScript(req[o].code, req[o].guiState)

(***************************************************************************)
(* C1.  For executeScript, exportSTEP, exportSTL, exportOBJ and importFile,*)
(* on every exit path (return, script fault, worker error message, worker  *)
(* 'error' event, round-trip timeout), by the time the operation's promise *)
(* settles its worker has been terminated and is no longer in              *)
(* activeWorkers.                                                          *)
(***************************************************************************)
C1_TerminatedWhenSettled ==
  \A o \in Ops :
    pc[o] \in Settled => (o \notin activeWorkers /\ worker[o].state = "terminated")

\* an operation that failed by a round-trip timeout, its worker gone
C1_Witness ==
  \E o \in Ops :
    /\ pc[o] = "rejected" /\ outcome[o].error = TimeoutError
    /\ worker[o].state = "terminated" /\ o \notin activeWorkers

(***************************************************************************)
(* C2.  If a worker never answers a round trip (its script loops forever), *)
(* the operation fails with a Timeout error, and once it has failed its    *)
(* worker is neither alive nor in activeWorkers.  Stated on the step that   *)
(* settles an operation whose worker hangs: the operation is rejected, by  *)
(* the timeout (or by the thread's own 'error' event), and the worker is   *)
(* gone.                                                                   *)
(***************************************************************************)
C2_HungWorkerTimesOut ==
  [][\A o \in Ops :
       (worker[o].state = "hung" /\ pc[o] \in Awaiting /\ pc'[o] \in Settled)
       => /\ pc'[o] = "rejected"
          /\ outcome'[o].error \in {TimeoutError, WorkerErrorEvent}
          /\ worker'[o].state = "terminated"
          /\ o \notin activeWorkers']_vars

(***************************************************************************)
(* C3.  Every sendWorkerMessage call that resolves does so with the        *)
(* worker's response to the request it sent (response type = request       *)
(* type), never with a message for another request or an unsolicited       *)
(* 'ready' or 'log' message.                                               *)
(***************************************************************************)
C3_ResponseMatchesRequest ==
  \A o \in Ops :
    \A k \in 1..Len(roundTrips[o]) :
      roundTrips[o][k].how = "resolve"
      => roundTrips[o][k].response = roundTrips[o][k].request

(***************************************************************************)
(* C4.  In every reachable state, however many operations run              *)
(* concurrently, the number of live workers does not exceed maxWorkers.    *)
(***************************************************************************)
C4_LiveWorkersBounded == Cardinality(LiveWorkers) <= maxWorkers

(***************************************************************************)
(* C5.  When the number of live workers has reached maxWorkers, a further  *)
(* operation's worker acquisition fails with PoolExhausted: no worker is   *)
(* created and the request is neither queued nor started.                  *)
(***************************************************************************)
C5_PoolExhausted ==
  [][\A o \in Ops :
       (Cardinality(LiveWorkers) >= maxWorkers /\ pc[o] = "idle" /\ pc'[o] # "idle")
       => /\ pc'[o] = "rejected"
          /\ outcome'[o].error = "PoolExhausted"
          /\ activeWorkers' \subseteq activeWorkers
          /\ worker'[o].state = "none"]_vars

(***************************************************************************)
(* C6.  For every script that evaluates without fault and creates n        *)
(* shapes, executeScript returns success = true, shapeCount = n and the    *)
(* mesh of exactly those n shapes (for Box(10, 10, 10): shapeCount = 1 and *)
(* a non-empty vertex buffer).                                             *)
(***************************************************************************)
C6_ExecuteScriptResult ==
  \A o \in Ops :
    (req[o].kind = "executeScript" /\ pc[o] = "resolved" /\ RunOf(o).status = "run")
    => LET v == outcome[o].value
           shapes == RunOf(o).shapes
       IN  /\ v.success
           /\ v.shapeCount = Len(shapes)
           /\ "meshData" \in v.has
           /\ v.meshData = generateMeshData(shapes)
           /\ (Len(shapes) > 0 => Len(v.meshData.vertices) > 0)

(***************************************************************************)
(* The default a control statement declares, read off the statement:       *)
(* Slider/Checkbox/TextInput: defaultValue; Dropdown: options[defaultIndex]*)
(* with index 0 when defaultIndex is omitted.                              *)
(***************************************************************************)
IsControl(st) == st.op \in Controls
ExpectedDefault(st) ==
  IF st.op = "Dropdown" THEN st.options[IF st.idx = -1 THEN 1 ELSE st.idx + 1] ELSE st.def
\* what a control call is to return under the caller's guiState g
ExpectedValue(st, g) == IF st.name \in DOMAIN g THEN g[st.name] ELSE ExpectedDefault(st)
\* statement i is the last control call of the script for its name
LastControl(code, i) ==
  /\ IsControl(code[i])
  /\ \A j \in (i + 1)..Len(code) : ~(IsControl(code[j]) /\ code[j].name = code[i].name)

(***************************************************************************)
(* C7.  When a script calls a GUI-control accessor for a name absent from  *)
(* the caller-supplied guiState, the guiState returned by evaluate and by  *)
(* executeScript contains that name mapped to the script-declared default  *)
(* (Slider("Size", 10, 5, 20) with empty input: {"Size": 10}).             *)
(***************************************************************************)
C7_DefaultsReturned ==
  \A o \in Ops :
    (req[o].kind = "executeScript" /\ RunOf(o).status = "run")
    => \A i \in 1..Len(req[o].code) :
         (LastControl(req[o].code, i) /\ req[o].code[i].name \notin DOMAIN req[o].guiState)
         => /\ \A k \in 1..Len(outbox[o]) :
                 outbox[o][k].type = "Evaluate"
                 => Lookup(outbox[o][k].guiState, req[o].code[i].name)
                    = ExpectedDefault(req[o].code[i])
            /\ pc[o] = "resolved"
               => Lookup(outcome[o].value.guiState, req[o].code[i].name)
                  = ExpectedDefault(req[o].code[i])

C9_MeshWellFormed ==
  fnPc = "meshed"
  => /\ \A k \in 1..Len(fnMesh.indices) :
          fnMesh.indices[k] >= 0 /\ 3 * fnMesh.indices[k] < Len(fnMesh.vertices)
     /\ Len(fnMesh.normals) = Len(fnMesh.vertices)

\* the mesh of a ShapeSet of several shapes, a translated sphere the last
C9_Witness ==
  /\ fnPc = "meshed"
  /\ Len(fnShapes) >= 2
  /\ fnShapes[Len(fnShapes)].type = "Sphere"
  /\ fnShapes[Len(fnShapes)].translation # NoTranslation
  /\ Len(fnMesh.indices) > Len(SphereIndices)

(***************************************************************************)
(* C10.  When a script faults during evaluation, the operation fails with  *)
(* the fault message, and the log entries captured up to the fault are     *)
(* returned to the caller together with that error.                        *)
(***************************************************************************)
C10_FaultReportedWithLogs ==
  \A o \in Ops :
    (/\ req[o].kind \in ScriptKinds
     /\ RunOf(o).status = "fault"
     /\ pc[o] \in Settled
     /\ outcome[o].error \notin {TimeoutError, WorkerErrorEvent})
    => /\ pc[o] = "rejected"
       /\ outcome[o].error = RunOf(o).error
       /\ "logs" \in outcome[o].has

(***************************************************************************)
(* C11.  When the script of executeScript evaluates without fault and the  *)
(* mesh step then fails, the operation fails with an error that carries a  *)
(* kind, TessellationError, which tells it apart from the failure of a     *)
(* script that faults (CompilationError).                                  *)
(***************************************************************************)
C11_TessellationErrorReported ==
  \A o \in Ops :
    (/\ req[o].kind = "executeScript"
     /\ RunOf(o).status = "run"
     /\ MeshThrows(RunOf(o).shapes)
     /\ pc[o] \in Settled
     /\ outcome[o].error \notin {TimeoutError, WorkerErrorEvent})
    => /\ pc[o] = "rejected"
       /\ "kind" \in outcome[o].has

(***************************************************************************)
(* C12.  The logs of the result of executeScript are the script's          *)
(* console.log / console.warn / console.error calls, each an entry with    *)
(* the level of the call and its message, in the order of the calls.       *)
(***************************************************************************)
LogEntries(posts) ==
  [k \in 1..Len(posts) |-> [level |-> posts[k].level, message |-> posts[k].message]]

C12_LogsReturned ==
  \A o \in Ops :
    (/\ req[o].kind = "executeScript"
     /\ RunOf(o).status = "run"
     /\ pc[o] = "resolved")
    => /\ "logs" \in outcome[o].value.has
       /\ outcome[o].value.logs = LogEntries(RunOf(o).posts)

(***************************************************************************)
(* C13.  A validateScript call creates no worker and has no side effect:   *)
(* across the call activeWorkers is the same, no worker thread changes, no *)
(* message is posted to a worker or by one (the script is not executed),   *)
(* and no operation moves.                                                 *)
(***************************************************************************)
C13_ValidateScriptNoWorker ==
  [][validation' # validation
     => /\ activeWorkers' = activeWorkers
        /\ worker' = worker
        /\ inbox' = inbox
        /\ outbox' = outbox
        /\ pc' = pc
        /\ timer' = timer]_vars

\* validateScript has answered for a script with calls while an operation
\* holds a live worker and waits for it
C13_Witness ==
  /\ validation.called
  /\ validation.value.usedFunctions # <<>>
  /\ activeWorkers # {}
  /\ \E o \in Ops : pc[o] \in Awaiting /\ worker[o].state \in Alive

(***************************************************************************)
(* C14.  validateScript(code) returns as usedFunctions the distinct names  *)
(* of the modeling vocabulary that code calls, each once, and valid is     *)
(* true exactly when errors is empty, which is exactly when code parses.   *)
(***************************************************************************)
\* the vocabulary names of the statements of code that are calls of them
CallSites(code) == {code[i].op : i \in {k \in 1..Len(code) : code[k].op \in RegexNames}}

NoRepeats(q) == \A i, j \in 1..Len(q) : q[i] = q[j] => i = j

C14_ValidateScriptResult ==
  validation.called
  => /\ {validation.value.usedFunctions[k] :
           k \in 1..Len(validation.value.usedFunctions)} = CallSites(validation.code)
     /\ NoRepeats(validation.value.usedFunctions)
     /\ validation.value.valid = (validation.value.errors = <<>>)
     /\ validation.value.valid = ~ParseFails(validation.code)

(***************************************************************************)
(* C15.  Every operation that has been called eventually settles, whatever *)
(* its worker does (it answers, posts an error, raises an 'error' event,   *)
(* is terminated underneath the operation, or stays silent), and once it   *)
(* has settled its outcome never changes: it settles exactly once.         *)
(***************************************************************************)
C15_SettlesExactlyOnce ==
  /\ \A o \in 1..LiveOps : (pc[o] \in Awaiting) ~> (pc[o] \in Settled)
  /\ [][\A o \in Ops : pc[o] \in Settled => pc'[o] = pc[o] /\ outcome'[o] = outcome[o]]_vars

\* an operation whose worker was terminated underneath it by cleanup() has
\* settled, with the timeout of its round trip
C15_Witness ==
  \E o \in Ops :
    /\ pc[o] = "rejected"
    /\ outcome[o].error = TimeoutError
    /\ worker[o].state = "terminated"
    /\ roundTrips[o] # <<>>
    /\ timer[o]

(***************************************************************************)
(* C16.  Each operation uses one worker, created for it when it starts;    *)
(* a worker receives only the requests of its own operation, its globals   *)
(* (currentShapes, currentGUIState) come from that operation's script and  *)
(* guiState only, and the guiState in an operation's result is its own.    *)
(***************************************************************************)
OwnRequests(o) == {FirstRequest(req[o]), SecondRequest(req[o].kind)}

C16_WorkerPerOperation ==
  /\ [](\A w \in Ops :
          /\ \A k \in 1..Len(inbox[w]) : inbox[w][k] \in OwnRequests(w)
          /\ worker[w].currentShapes \in {<<>>, RunOf(w).shapes}
          /\ worker[w].currentGUIState \in {EmptyGUI, req[w].guiState}
          /\ pc[w] = "resolved" /\ "guiState" \in outcome[w].value.has
             => outcome[w].value.guiState = req[w].guiState)
  /\ [][\A o \in Ops :
          pc[o] = "idle" /\ pc'[o] # "idle"
          => /\ worker[o].state = "none" /\ worker'[o].state = "starting"
             /\ o \notin activeWorkers /\ o \in activeWorkers'
             /\ \A w \in Ops \ {o} : worker'[w] = worker[w] /\ inbox'[w] = inbox[w]]_vars

\* two operations with different scripts and guiStates, both workers having
\* evaluated their script, one operation resolved and the other still waiting
C16_Witness ==
  \E o, p \in Ops :
    /\ o # p
    /\ req[o] # req[p]
    /\ pc[o] = "resolved" /\ "guiState" \in outcome[o].value.has
    /\ pc[p] \in Awaiting
    /\ worker[p].currentShapes # <<>>
    /\ worker[p].currentShapes # RunOf(o).shapes

(***************************************************************************)
(* C17.  Every worker that createWorker has put in activeWorkers is        *)
(* eventually terminated and out of activeWorkers, also when its caller    *)
(* never releases it and no round trip is pending on it: the auto-cleanup  *)
(* timer of workerTimeout does it.                                         *)
(***************************************************************************)
C17_LifetimeBounded ==
  \A o \in 1..LiveOps :
    (o \in activeWorkers) ~> (o \notin activeWorkers /\ worker[o].state = "terminated")

\* the worker of a caller that keeps it has been terminated by its timer
C17_Witness ==
  \E o \in Ops :
    /\ req[o].kind = "createWorker"
    /\ pc[o] = "held"
    /\ ~timer[o]
    /\ worker[o].state = "terminated"
    /\ o \notin activeWorkers

VertexCount(m) == Len(m.vertices) \div 3

IndexOutOfRange(m) == \E k \in 1..Len(m.indices) : m.indices[k] >= VertexCount(m)

C19_InvalidMeshRejected ==
  (/\ codecText.fn \in {"STL", "OBJ"}
   /\ \/ ~MeshGiven(meshData)
      \/ IndexOutOfRange(meshData))
  => /\ ~codecText.ok
     /\ codecText.text = <<>>

(***************************************************************************)
(* C20.  meshToSTL does not fail for want of normals.  For a mesh with     *)
(* vertices and indices, all indices in range, every triangle has a facet: *)
(* its normal is (0, 0, 1) when the normals buffer has no entry for the    *)
(* triangle's first vertex, and the three floats the buffer holds for that *)
(* vertex when it has them.                                                *)
(***************************************************************************)
\* the `facet normal` line of triangle t (0-based) of an STL text
FacetLine(text, t) == text[2 + 7 * t]

C20_MissingNormalsSubstituted ==
  (/\ codecText.fn = "STL"
   /\ MeshGiven(meshData)
   /\ ~IndexOutOfRange(meshData)
   /\ Len(meshData.indices) % 3 = 0)
  => /\ codecText.ok
     /\ Len(codecText.text) = 2 + 7 * (Len(meshData.indices) \div 3)
     /\ \A t \in 0..((Len(meshData.indices) \div 3) - 1) :
          LET i1 == 3 * meshData.indices[3 * t + 1]
              normals == MeshBuffers(meshData).normals
          IN  /\ Len(normals) <= i1
                 => FacetLine(codecText.text, t) = <<"facet normal", 0, 0, Milli>>
              /\ Len(normals) >= i1 + 3
                 => FacetLine(codecText.text, t) =
                      <<"facet normal", normals[i1 + 1], normals[i1 + 2], normals[i1 + 3]>>

\* STL text of a triangle for a mesh without a normals buffer
C20_Witness ==
  /\ codecText.fn = "STL"
  /\ codecText.ok
  /\ MeshGiven(meshData)
  /\ "normals" \notin meshData.has
  /\ Len(meshData.indices) = 3
  /\ ~IndexOutOfRange(meshData)

(***************************************************************************)
(* C21.  For a mesh of triangles with all indices in range, the text of    *)
(* meshToSTL opens with its only `solid` line, closes with its only        *)
(* `endsolid` line, and holds between them one facet block per triangle    *)
(* (indices.length / 3 blocks): facet normal, outer loop, the vertices of  *)
(* the triangle's three indices in the order of the indices, endloop,      *)
(* endfacet.                                                               *)
(***************************************************************************)
WellFormedMesh(m) ==
  /\ MeshGiven(m)
  /\ ~IndexOutOfRange(m)
  /\ Len(m.indices) % 3 = 0

LinesOf(text, word) == {k \in 1..Len(text) : text[k][1] = word}

\* the `vertex` line of the vertex that index idx refers to
VertexLine(m, idx) ==
  <<"vertex", m.vertices[3 * idx + 1], m.vertices[3 * idx + 2], m.vertices[3 * idx + 3]>>

C21_STLStructure ==
  (codecText.fn = "STL" /\ WellFormedMesh(meshData))
  => LET text == codecText.text
         nt == Len(meshData.indices) \div 3
     IN  /\ codecText.ok
         /\ Len(text) = 2 + 7 * nt
         /\ LinesOf(text, "solid") = {1}
         /\ LinesOf(text, "endsolid") = {Len(text)}
         /\ Cardinality(LinesOf(text, "facet normal")) = nt
         /\ \A t \in 0..(nt - 1) :
              /\ text[7 * t + 2][1] = "facet normal"
              /\ text[7 * t + 3] = <<"outer loop">>
              /\ text[7 * t + 4] = VertexLine(meshData, meshData.indices[3 * t + 1])
              /\ text[7 * t + 5] = VertexLine(meshData, meshData.indices[3 * t + 2])
              /\ text[7 * t + 6] = VertexLine(meshData, meshData.indices[3 * t + 3])
              /\ text[7 * t + 7] = <<"endloop">>
              /\ text[7 * t + 8] = <<"endfacet">>

\* STL text of a mesh of two different triangles
C21_Witness ==
  /\ codecText.fn = "STL"
  /\ codecText.ok
  /\ WellFormedMesh(meshData)
  /\ Len(meshData.indices) = 6
  /\ SubSeq(meshData.indices, 1, 3) # SubSeq(meshData.indices, 4, 6)

(***************************************************************************)
(* C22.  For a mesh whose buffers hold whole triples, the text of          *)
(* meshToOBJ is the header, then one `v` line per vertex, then one `vn`    *)
(* line per normal if the normals buffer is not empty, then one face line  *)
(* per triangle; every number of a face line is the mesh's index plus 1,   *)
(* and the face has the form v//vn exactly when there are normals.         *)
(***************************************************************************)
WholeTriples(m) ==
  /\ MeshGiven(m)
  /\ Len(m.vertices) % 3 = 0
  /\ Len(m.indices) % 3 = 0
  /\ Len(MeshBuffers(m).normals) % 3 = 0

C22_OBJStructure ==
  (codecText.fn = "OBJ" /\ WholeTriples(meshData))
  => LET text == codecText.text
         m == MeshBuffers(meshData)
         nv == Len(m.vertices) \div 3
         nn == Len(m.normals) \div 3
         nf == Len(m.indices) \div 3
     IN  /\ codecText.ok
         /\ Len(text) = 1 + nv + nn + nf
         /\ \A k \in 1..nv :
              text[1 + k] = <<"v", m.vertices[3 * k - 2], m.vertices[3 * k - 1], m.vertices[3 * k]>>
         /\ \A k \in 1..nn :
              text[1 + nv + k] = <<"vn", m.normals[3 * k - 2], m.normals[3 * k - 1], m.normals[3 * k]>>
         /\ \A k \in 1..nf :
              LET a == m.indices[3 * k - 2] + 1
                  b == m.indices[3 * k - 1] + 1
                  c == m.indices[3 * k] + 1
              IN  text[1 + nv + nn + k] =
                    IF nn > 0 THEN <<"f//", a, a, b, b, c, c>> ELSE <<"f", a, b, c>>

\* OBJ text of a mesh of two triangles with normals
C22_Witness ==
  /\ codecText.fn = "OBJ"
  /\ codecText.ok
  /\ WholeTriples(meshData)
  /\ Len(meshData.indices) = 6
  /\ Len(MeshBuffers(meshData).normals) = Len(meshData.vertices)
  /\ Len(meshData.vertices) > 0

(***************************************************************************)
(* The routes of the API (src/unnamed/part_001) and their validation       *)
(* middleware (src/unnamed/part_000).  The body of a request is a JSON     *)
(* object: `has` names the keys it carries; text is the script its `code`  *)
(* or `script` key holds and chars the length of that string;              *)
(* meshResolution is in thousandths and timeout in milliseconds.           *)
(***************************************************************************)
Body(has, text, chars, guiState, meshResolution, timeout, filename) ==
  [has |-> has, text |-> text, chars |-> chars, guiState |-> guiState,
   meshResolution |-> meshResolution, timeout |-> timeout, filename |-> filename]

\* the keys of schemas.script and of schemas.export
SchemaKeys(schema) ==
  IF schema = "script" THEN {"code", "guiState", "meshResolution", "timeout"}
  ELSE {"script", "guiState", "filename", "meshResolution"}

\* Joi.string().required().min(1).max(100000) of the key `code` / `script`
TextError(schema, body) ==
  LET key == IF schema = "script" THEN "code" ELSE "script"
  IN  key \notin body.has \/ body.chars < 1 \/ body.chars > 100000

\* Joi.number().min(0.01).max(1.0)
MeshResolutionError(body) ==
  "meshResolution" \in body.has /\ (body.meshResolution < 10 \/ body.meshResolution > 1000)

\* Joi.number().min(1000).max(60000), a key of schemas.script only
TimeoutRangeError(schema, body) ==
  /\ schema = "script"
  /\ "timeout" \in body.has
  /\ (body.timeout < 1000 \/ body.timeout > 60000)

\* schema.validate(req.body, { abortEarly: false, stripUnknown: true }):
\* the error, and the value with unknown keys stripped and defaults set
schemas(schema, body) ==
  [error |-> TextError(schema, body) \/ MeshResolutionError(body)
             \/ TimeoutRangeError(schema, body),
   value |-> [body EXCEPT
     !.has = (body.has \cap SchemaKeys(schema)) \cup {"guiState", "meshResolution"}
             \cup (IF schema = "script" THEN {"timeout"} ELSE {"filename"}),
     !.guiState = IF "guiState" \in body.has THEN body.guiState ELSE EmptyGUI,
     !.meshResolution = IF "meshResolution" \in body.has THEN body.meshResolution ELSE 100,
     !.timeout = IF schema # "script" THEN 0
                 ELSE IF "timeout" \in body.has THEN body.timeout ELSE 10000]]

\* a validator that lets every body through
createValidator_CallsNext(schema, body) ==
  [answered |-> FALSE, status |-> 0, error |-> "", value |-> schemas(schema, body).value]

\* createValidator(schema): res.status(400).json({ error: 'Validation failed' })
\* or req.body = value; next()
createValidator(schema, body) ==
  LET r == schemas(schema, body)
  IN  IF r.error
      THEN [answered |-> TRUE, status |-> 400, error |-> "Validation failed", value |-> body]
      ELSE [answered |-> FALSE, status |-> 0, error |-> "", value |-> r.value]

\* const allowedExtensions = ['.step', '.stp', '.iges', '.igs', '.stl']
allowedExtensions == {".step", ".stp", ".iges", ".igs", ".stl"}

\* file.originalname.toLowerCase().substring(file.originalname.lastIndexOf('.'))
\* for the file names of the model (lastIndexOf gives -1 for a name without
\* a dot, and substring(-1) the whole name)
fileExtension(originalname) ==
  CASE originalname = "part.step" -> ".step"
    [] originalname = "PART.STP" -> ".stp"
    [] originalname = "mesh.stl" -> ".stl"
    [] originalname = "notes.txt" -> ".txt"
    [] originalname = "part.step.exe" -> ".exe"
    [] OTHER -> originalname

\* fileFilter: cb(null, true) or cb(new Error('Unsupported file type: ...'))
fileFilter(originalname) == fileExtension(originalname) \in allowedExtensions

\* upload.array('files') for a request with one file; the Error of fileFilter
\* goes to router.use((error, req, res, next) => ...)
upload(body) ==
  IF fileFilter(body.filename)
  THEN [answered |-> FALSE, status |-> 0, error |-> "", value |-> body]
  ELSE [answered |-> TRUE, status |-> 400, error |-> "File upload error", value |-> body]

Routes == {"compile", "export/step", "export/stl", "export/obj", "import"}

\* the middleware of a route, applied to the body of a request
Middleware(route, body) ==
  CASE route = "compile" -> createValidator("script", body)
    [] route = "import" -> upload(body)
    [] OTHER -> createValidator("export", body)

\* the call of the service the handler of a route makes: the handlers pass
\* code / script, guiState and meshResolution (or the name of the file), and
\* nothing else of the body
HandlerCall(route, value) ==
  CASE route = "compile" -> Request("executeScript", value.text, value.guiState, "")
    [] route = "export/step" -> Request("exportSTEP", value.text, value.guiState, "")
    [] route = "export/stl" -> Request("exportSTL", value.text, value.guiState, "")
    [] route = "export/obj" -> Request("exportOBJ", value.text, value.guiState, "")
    [] OTHER -> Request("importFile", <<>>, EmptyGUI, value.filename)

\* the delay of the setTimeout of the sendWorkerMessage calls of an
\* operation: they are given no third argument
RoundTripDelay(call) == sendTimeout

NoCall == Request("none", <<>>, EmptyGUI, "")

HttpRequest(route, body) ==
  [route |-> route, body |-> body, answered |-> FALSE, status |-> 0, error |-> "",
   value |-> body, timerMs |-> 0]

\* router.post(route, middleware, handler) up to the first await of the
\* handler: the middleware answers, or the handler calls the service, which
\* creates a worker and posts its first request
RouteRequest(o) ==
  /\ pc[o] = "idle"
  /\ ~http[o].answered
  /\ LET m == Middleware(http[o].route, http[o].body)
         call == HandlerCall(http[o].route, m.value)
     IN  IF m.answered
         THEN /\ http' = [http EXCEPT ![o].answered = TRUE, ![o].status = m.status,
                                      ![o].error = m.error]
              /\ UNCHANGED svcVars
         ELSE /\ http' = [http EXCEPT ![o].value = m.value,
                                      ![o].timerMs = RoundTripDelay(call)]
              /\ req' = [req EXCEPT ![o] = call]
              /\ activeWorkers' = createWorker(activeWorkers, o)
              /\ worker' = [worker EXCEPT ![o].state = "starting"]
              /\ timer' = [timer EXCEPT ![o] = TRUE]
              /\ inbox' = [inbox EXCEPT ![o] = <<FirstRequest(call)>>]
              /\ pc' = [pc EXCEPT ![o] = "await1"]
              /\ UNCHANGED <<result, outcome, roundTrips, outbox>>
  /\ UNCHANGED fnVars
  /\ UNCHANGED libVars
  /\ UNCHANGED <<projects, reply, now>>

\* the error of the catch block of a handler
RouteError(route) ==
  CASE route = "compile" -> "Compilation failed"
    [] route = "export/step" -> "STEP export failed"
    [] route = "export/stl" -> "STL export failed"
    [] route = "export/obj" -> "OBJ export failed"
    [] OTHER -> ""

\* what the client of request o has been answered: the answer of the
\* middleware, or that of the handler once the call of the service settled
\* (the import handler answers 200 with the error in its results)
RouteResponse(o) ==
  IF http[o].answered THEN [status |-> http[o].status, error |-> http[o].error]
  ELSE IF pc[o] = "resolved" \/ (pc[o] = "rejected" /\ http[o].route = "import")
  THEN [status |-> 200, error |-> ""]
  ELSE IF pc[o] = "rejected" THEN [status |-> 400, error |-> RouteError(http[o].route)]
  ELSE [status |-> 0, error |-> ""]

\* the scripts sent to the routes (the strings that hold them 15 characters
\* long where the length is not the point)
RouteScripts ==
  { <<SBox>>, <<SBox, SLoop>>, <<SLog("log", "a"), SBox>>,
    <<SUse("process")>>, <<SUse("eval"), SBox>>, <<SBox, SUse("Function")>>,
    <<SUse("global")>>, <<SUse("require")>>, <<SUse("parentPort")>>, <<SUse("console")>> }

\* bodies of POST /compile: the code alone, code of every length around the
\* limits, no code, and meshResolution and timeout inside and outside theirs
CompileBodies ==
  {Body({"code"}, c, 15, EmptyGUI, 0, 0, "") : c \in RouteScripts}
  \cup {Body({"code"}, <<SBox>>, n, EmptyGUI, 0, 0, "") : n \in {100000, 100001}}
  \cup {Body({"code"}, <<>>, 0, EmptyGUI, 0, 0, ""),
        Body({"guiState"}, <<>>, 0, GuiSize15, 0, 0, ""),
        Body({"script"}, <<SBox>>, 15, EmptyGUI, 0, 0, "")}
  \cup {Body({"code", "meshResolution"}, <<SBox>>, 15, EmptyGUI, r, 0, "") :
          r \in {0, 9, 10, 1000, 1001}}
  \cup {Body({"code", "timeout"}, c, 15, EmptyGUI, 0, t, "") :
          c \in {<<SBox>>, <<SBox, SLoop>>}, t \in {999, 1000, 10000, 60000, 60001}}

ExportBodies ==
  {Body({"script"}, c, 15, EmptyGUI, 0, 0, "") : c \in {<<SBox>>, <<SBox, SLoop>>}}
  \cup {Body({"script"}, <<SBox>>, n, EmptyGUI, 0, 0, "") : n \in {0, 100000, 100001}}
  \cup {Body({"code"}, <<SBox>>, 15, EmptyGUI, 0, 0, ""),
        Body({"guiState"}, <<>>, 0, GuiSize15, 0, 0, "")}
  \cup {Body({"script", "meshResolution"}, <<SBox>>, 15, EmptyGUI, r, 0, "") :
          r \in {9, 10, 1000, 1001}}

ImportBodies ==
  {Body({}, <<>>, 0, EmptyGUI, 0, 0, f) :
     f \in {"part.step", "PART.STP", "mesh.stl", "notes.txt", "part.step.exe", "README"}}

HttpRequests ==
  {HttpRequest("compile", b) : b \in CompileBodies}
  \cup {HttpRequest(r, b) : r \in {"export/step", "export/stl", "export/obj"}, b \in ExportBodies}
  \cup {HttpRequest("import", b) : b \in ImportBodies}

\* one request to a route of the API, the service behind it new
InitRoutes ==
  /\ http \in [1..1 -> HttpRequests]
  /\ req = [o \in 1..1 |-> NoCall]
  /\ pc = [o \in 1..1 |-> "idle"]
  /\ result = [o \in 1..1 |-> BaseMsg("")]
  /\ outcome = [o \in 1..1 |-> Pending]
  /\ roundTrips = [o \in 1..1 |-> <<>>]
  /\ activeWorkers = {}
  /\ worker = [o \in 1..1 |-> NoWorker]
  /\ inbox = [o \in 1..1 |-> <<>>]
  /\ outbox = [o \in 1..1 |-> <<>>]
  /\ timer = [o \in 1..1 |-> FALSE]
  /\ FnOff
  /\ LibOff
  /\ projects = <<>>
  /\ reply = NoReply
  /\ now = 0

NextRoutes ==
  \/ \E o \in Ops : RouteRequest(o)
  \/ \E o \in Ops : Deliver(o)
  \/ \E o \in Ops : Timeout(o)
  \/ \E o \in Ops : WorkerError(o)
  \/ \E o \in Ops : AutoCleanup(o)
  \/ \E o \in Ops : WorkerBoot(o)
  \/ \E o \in Ops : WorkerHandle(o)

\* every request of HttpRequests, sent to its route
SpecRoutes == InitRoutes /\ [][NextRoutes]_vars

(***************************************************************************)
(* C23.  While a worker evaluates a script sent to POST /compile, the      *)
(* script gets hold of no name but those of the injected context (the      *)
(* modeling vocabulary and console): no name of the host (process, eval,   *)
(* Function, the global object) is reached.                                *)
(***************************************************************************)
C23_OnlyInjectedNamesReachable ==
  \A o \in Ops :
    http[o].route = "compile" => worker[o].reached = {}

(***************************************************************************)
(* C24.  importFile called with a file name whose extension is not one of  *)
(* .step, .stp, .iges, .igs, .stl creates no worker and fails with         *)
(* UnsupportedFormat.                                                      *)
(***************************************************************************)
C24_UnsupportedImportRejected ==
  \A o \in Ops :
    (req[o].kind = "importFile" /\ ~fileFilter(req[o].filename))
    => /\ worker[o].state = "none"
       /\ o \notin activeWorkers
       /\ pc[o] \in Settled
          => (pc[o] = "rejected" /\ outcome[o].error = "UnsupportedFormat")

(***************************************************************************)
(* C25.  A request to POST /compile or POST /export/* whose body has no    *)
(* code (script for the exports), a meshResolution outside [0.01, 1.0] or  *)
(* a code longer than 100000 characters is answered with status 400 and    *)
(* error 'Validation failed', and nothing of the service moves for it: no  *)
(* worker is created, no call is made.                                     *)
(***************************************************************************)
ValidatedRoutes == {"compile", "export/step", "export/stl", "export/obj"}

InvalidBody(route, body) ==
  \/ (IF route = "compile" THEN "code" ELSE "script") \notin body.has
  \/ "meshResolution" \in body.has /\ body.meshResolution < 10
  \/ "meshResolution" \in body.has /\ body.meshResolution > 1000
  \/ body.chars > 100000

C25_InvalidBodyRejected ==
  /\ [](\A o \in Ops :
          (http[o].route \in ValidatedRoutes /\ InvalidBody(http[o].route, http[o].body))
          => /\ pc[o] = "idle"
             /\ req[o] = NoCall
             /\ worker[o].state = "none"
             /\ activeWorkers = {}
             /\ inbox[o] = <<>>
             /\ http[o].answered
                => RouteResponse(o) = [status |-> 400, error |-> "Validation failed"])
  /\ [][\A o \in Ops :
          (/\ http[o].route \in ValidatedRoutes
           /\ InvalidBody(http[o].route, http[o].body)
           /\ http'[o] # http[o])
          => http'[o].answered]_vars

\* a compile request without code has been answered
C25_Witness ==
  \E o \in Ops :
    /\ http[o].route = "compile"
    /\ "code" \notin http[o].body.has
    /\ http[o].answered
    /\ RouteResponse(o) = [status |-> 400, error |-> "Validation failed"]
    /\ worker[o].state = "none"

(***************************************************************************)
(* C26.  The round trips of a compile request are given the request's      *)
(* timeout (the validated value: 1000..60000 ms, 10000 when the body has   *)
(* none): when the worker stays silent and the request fails by timeout,   *)
(* the timer that fired was set to that value.                             *)
(***************************************************************************)
C26_TimeoutFromRequest ==
  \A o \in Ops :
    (/\ http[o].route = "compile"
     /\ pc[o] = "rejected"
     /\ outcome[o].error = TimeoutError)
    => http[o].timerMs = http[o].value.timeout

(***************************************************************************)
(* The projects router (src/unnamed/part_000, lines 158-515): projects is  *)
(* its Map; an id is the sequence of the characters of req.params.id.      *)
(***************************************************************************)
\* longest sequence of requests to the projects router
MaxRequests == 3

Digits == {"0", "1", "2", "3", "4", "5", "6", "7", "8", "9"}
HexDigits == Digits \cup {"a", "b", "c", "d", "e", "f", "A", "B", "C", "D", "E", "F"}

\* /^[0-9a-f]{8}-[0-9a-f]{4}-[1-5][0-9a-f]{3}-[89ab][0-9a-f]{3}-[0-9a-f]{12}$/i
uuidRegex(id) ==
  /\ Len(id) = 36
  /\ \A k \in 1..36 :
       CASE k \in {9, 14, 19, 24} -> id[k] = "-"
         [] k = 15 -> id[k] \in {"1", "2", "3", "4", "5"}
         [] k = 20 -> id[k] \in {"8", "9", "a", "b", "A", "B"}
         [] OTHER -> id[k] \in HexDigits

\* validateProjectId: the answer it gives (no route of the router mounts it)
validateProjectId(id) ==
  IF ~uuidRegex(id)
  THEN [answered |-> TRUE, status |-> 400, error |-> "Validation failed"]
  ELSE [answered |-> FALSE, status |-> 0, error |-> ""]

\* 3b241101-e2bb-4255-8caf-4136c566a962
UuidA ==
  <<"3", "b", "2", "4", "1", "1", "0", "1", "-", "e", "2", "b", "b", "-",
    "4", "2", "5", "5", "-", "8", "c", "a", "f", "-", "4", "1", "3", "6",
    "c", "5", "6", "6", "a", "9", "6", "2">>
\* 9F8E7D6C-5B4A-1C3D-9E2F-1A0B9C8D7E6F
UuidB ==
  <<"9", "F", "8", "E", "7", "D", "6", "C", "-", "5", "B", "4", "A", "-",
    "1", "C", "3", "D", "-", "9", "E", "2", "F", "-", "1", "A", "0", "B",
    "9", "C", "8", "D", "7", "E", "6", "F">>
\* 00000000-0000-4000-8000-000000000000
UuidUnknown ==
  <<"0", "0", "0", "0", "0", "0", "0", "0", "-", "0", "0", "0", "0", "-",
    "4", "0", "0", "0", "-", "8", "0", "0", "0", "-", "0", "0", "0", "0",
    "0", "0", "0", "0", "0", "0", "0", "0">>
\* invalid-id
IdInvalid ==
  <<"i", "n", "v", "a", "l", "i", "d", "-", "i", "d">>
\* 3b241101-e2bb-0255-8caf-4136c566a962
IdVersion0 ==
  <<"3", "b", "2", "4", "1", "1", "0", "1", "-", "e", "2", "b", "b", "-",
    "0", "2", "5", "5", "-", "8", "c", "a", "f", "-", "4", "1", "3", "6",
    "c", "5", "6", "6", "a", "9", "6", "2">>
\* uuidv4(): the ids it gives, in the order it gives them
UuidPool == <<UuidA, UuidB>>

\* the ids of the requests
RequestIds == {UuidA, UuidB, UuidUnknown, IdInvalid, IdVersion0}

\* A JSON value of a request body as JavaScript sees it: an object (its
\* fields), an array (its items), a scalar, null, or undefined for a key the
\* body does not have.
Json(t, v, fields, items) == [t |-> t, v |-> v, fields |-> fields, items |-> items]
JsonObject(fields) == Json("object", 0, fields, <<>>)
JsonArray(items) == Json("array", 0, EmptyGUI, items)
JsonScalar(x) == Json(x.t, x.v, EmptyGUI, <<>>)

\* !guiState
Falsy(j) ==
  \/ j.t \in {"undefined", "null"}
  \/ j.t \in {"number", "boolean", "string"} /\ j.v = 0

\* typeof guiState
TypeOf(j) == IF j.t \in {"object", "array", "null"} THEN "object" ELSE j.t

\* the name of the k-th item of an array (its index)
IndexKey(k) == CASE k = 1 -> "0" [] k = 2 -> "1" [] OTHER -> "2"

\* ...guiState: the own enumerable properties of the value
Spread(j) ==
  IF j.t = "array"
  THEN [n \in {IndexKey(k) : k \in 1..Len(j.items)} |->
          j.items[CHOOSE k \in 1..Len(j.items) : IndexKey(k) = n]]
  ELSE j.fields

\* an update that stores the supplied state in place of the stored one
MergeGui_Replaces(stored, supplied) == supplied

\* { ...project.guiState, ...guiState }
MergeGui(stored, supplied) ==
  [n \in DOMAIN stored \cup DOMAIN supplied |->
     IF n \in DOMAIN supplied THEN supplied[n] ELSE stored[n]]

\* the body of POST /: name and code are required by schemas.project
ProjectBody(has, name, guiState) == [has |-> has, name |-> name, guiState |-> guiState]

\* schemas.project: name and code Joi.string().required()
ProjectBodyError(body) == "name" \notin body.has \/ "code" \notin body.has

Reply(route, id, sent, status, error, looked, guiState) ==
  [route |-> route, id |-> id, sent |-> sent, status |-> status, error |-> error,
   looked |-> looked, guiState |-> guiState]

\* router.post('/', validateProject, ...)
CreateProject(body) ==
  /\ now < MaxRequests
  /\ Cardinality(DOMAIN projects) < Len(UuidPool)
  /\ now' = now + 1
  /\ IF ProjectBodyError(body)
     THEN /\ reply' = Reply("POST /", <<>>, JsonScalar(Undefined), 400, "Validation failed",
                            FALSE, EmptyGUI)
          /\ UNCHANGED projects
     ELSE LET id == UuidPool[Cardinality(DOMAIN projects) + 1]
              guiState == IF "guiState" \in body.has THEN body.guiState ELSE EmptyGUI
              project == [id |-> id, name |-> body.name, description |-> "",
                          code |-> <<SBox>>, guiState |-> guiState,
                          externalFiles |-> EmptyGUI, createdAt |-> now', updatedAt |-> now',
                          version |-> 1]
          IN  /\ projects' = [i \in DOMAIN projects \cup {id} |->
                                IF i = id THEN project ELSE projects[i]]
              /\ reply' = Reply("POST /", id, JsonScalar(Undefined), 201, "", FALSE, guiState)
  /\ UNCHANGED http
  /\ UNCHANGED svcVars
  /\ UNCHANGED fnVars
  /\ UNCHANGED libVars

\* router.get('/:id', ...)
GetProject(id) ==
  /\ now < MaxRequests
  /\ now' = now + 1
  /\ reply' = IF id \in DOMAIN projects
              THEN Reply("GET /:id", id, JsonScalar(Undefined), 200, "", TRUE,
                         projects[id].guiState)
              ELSE Reply("GET /:id", id, JsonScalar(Undefined), 404, "Project not found",
                         TRUE, EmptyGUI)
  /\ UNCHANGED <<http, projects>>
  /\ UNCHANGED svcVars
  /\ UNCHANGED fnVars
  /\ UNCHANGED libVars

\* router.post('/:id/gui', ...): guiState is req.body.guiState
PostGui(id, guiState) ==
  /\ now < MaxRequests
  /\ now' = now + 1
  /\ IF id \notin DOMAIN projects
     THEN /\ reply' = Reply("POST /:id/gui", id, guiState, 404, "Project not found", TRUE,
                            EmptyGUI)
          /\ UNCHANGED projects
     ELSE IF Falsy(guiState) \/ TypeOf(guiState) # "object"
     THEN /\ reply' = Reply("POST /:id/gui", id, guiState, 400, "Invalid GUI state", TRUE,
                            EmptyGUI)
          /\ UNCHANGED projects
     ELSE LET merged == MergeGui(projects[id].guiState, Spread(guiState))
          IN  /\ projects' = [projects EXCEPT ![id].guiState = merged,
                                              ![id].updatedAt = now',
                                              ![id].version = @ + 1]
              /\ reply' = Reply("POST /:id/gui", id, guiState, 200, "", TRUE, merged)
  /\ UNCHANGED http
  /\ UNCHANGED svcVars
  /\ UNCHANGED fnVars
  /\ UNCHANGED libVars

\* the bodies of POST /
ProjectBodies ==
  { ProjectBody({"name", "code"}, "bracket", EmptyGUI),
    ProjectBody({"name", "code", "guiState"}, "flange", GuiAll),
    ProjectBody({"code"}, "", EmptyGUI) }

\* the guiState of the bodies of POST /:id/gui
SentGuiStates ==
  { JsonObject([n \in {"Size"} |-> Num(20)]),
    JsonObject([n \in {"Size", "enabled"} |-> IF n = "Size" THEN Num(20) ELSE Bool(TRUE)]),
    JsonObject(EmptyGUI),
    JsonArray(<<Num(7)>>),
    JsonScalar(Null), JsonScalar(Undefined), JsonScalar(Num(5)), JsonScalar(Str(1)) }

\* const projects = new Map()
InitProjects ==
  /\ req = <<>> /\ pc = <<>> /\ result = <<>> /\ outcome = <<>> /\ roundTrips = <<>>
  /\ activeWorkers = {} /\ worker = <<>> /\ inbox = <<>> /\ outbox = <<>> /\ timer = <<>>
  /\ FnOff
  /\ LibOff
  /\ http = <<>>
  /\ projects = <<>>
  /\ reply = Reply("", <<>>, JsonScalar(Undefined), 0, "", FALSE, EmptyGUI)
  /\ now = 0

NextProjects ==
  \/ \E body \in ProjectBodies : CreateProject(body)
  \/ \E id \in RequestIds : GetProject(id)
  \/ \E id \in RequestIds, guiState \in SentGuiStates : PostGui(id, guiState)

\* up to MaxRequests requests to the projects router
SpecProjects == InitProjects /\ [][NextProjects]_vars

(***************************************************************************)
(* C27.  GET /api/projects/:id with an id that is not a well-formed UUID   *)
(* is answered with status 400 and error 'Validation failed', and the id   *)
(* is not looked up in the projects Map.                                   *)
(***************************************************************************)
C27_MalformedIdRejected ==
  (reply.route = "GET /:id" /\ validateProjectId(reply.id).answered)
  => /\ reply.status = 400
     /\ reply.error = "Validation failed"
     /\ ~reply.looked

(***************************************************************************)
(* C28.  POST /api/projects/:id/gui for a project of the store and a       *)
(* guiState that is an object (typeof 'object' and not null, which an      *)
(* array is too) stores the merge: each supplied key has the supplied      *)
(* value, each other stored key keeps its value, and there are no other    *)
(* keys; version grows by exactly 1; id, name, code, externalFiles and     *)
(* createdAt stay, and so does every other project.  For an unknown id or  *)
(* a guiState that is no object the store stays as it is.                  *)
(***************************************************************************)
IsObject(j) == j.t \in {"object", "array"}

\* the keys a body's guiState supplies, with their values
Supplied(j) == IF j.t = "object" THEN j.fields ELSE Spread(j)

C28_GuiUpdateFrame ==
  [][(reply'.route = "POST /:id/gui" /\ now' # now)
     => LET id == reply'.id
            supplied == Supplied(reply'.sent)
        IN  IF id \in DOMAIN projects /\ IsObject(reply'.sent)
            THEN /\ DOMAIN projects' = DOMAIN projects
                 /\ \A i \in DOMAIN projects \ {id} : projects'[i] = projects[i]
                 /\ DOMAIN projects'[id].guiState
                      = DOMAIN projects[id].guiState \cup DOMAIN supplied
                 /\ \A n \in DOMAIN supplied : projects'[id].guiState[n] = supplied[n]
                 /\ \A n \in DOMAIN projects[id].guiState \ DOMAIN supplied :
                      projects'[id].guiState[n] = projects[id].guiState[n]
                 /\ projects'[id].version = projects[id].version + 1
                 /\ projects'[id].id = projects[id].id
                 /\ projects'[id].name = projects[id].name
                 /\ projects'[id].code = projects[id].code
                 /\ projects'[id].externalFiles = projects[id].externalFiles
                 /\ projects'[id].createdAt = projects[id].createdAt
            ELSE projects' = projects]_vars

\* a project whose stored Size the update has overwritten, its other
\* controls kept, at version 2
C28_Witness ==
  \E id \in DOMAIN projects :
    /\ reply.route = "POST /:id/gui"
    /\ reply.id = id
    /\ reply.status = 200
    /\ projects[id].version = 2
    /\ "Size" \in DOMAIN projects[id].guiState
    /\ projects[id].guiState["Size"] = Num(20)
    /\ "On" \in DOMAIN projects[id].guiState
    /\ projects[id].guiState["On"] = Bool(FALSE)
    /\ projects[id].updatedAt > projects[id].createdAt

(***************************************************************************)
(* C29.  executeScript and the exports drive their worker in the order     *)
(* init, evaluate, tessellate/export: an Evaluate request is with the      *)
(* worker only once the worker has reported ready, and the request that    *)
(* follows it (combineAndRenderShapes, saveShapeSTEP) only once the        *)
(* Evaluate round trip has resolved with the Evaluate response, success    *)
(* true.                                                                   *)
(***************************************************************************)
C29_ProtocolOrder ==
  \A o \in Ops :
    req[o].kind \in ScriptKinds
    => /\ (\E k \in 1..Len(inbox[o]) : inbox[o][k].type = "Evaluate")
          => worker[o].state # "starting"
       /\ (\E k \in 1..Len(inbox[o]) : inbox[o][k] = SecondRequest(req[o].kind))
          => (result[o].type = "Evaluate" /\ result[o].success)

(***************************************************************************)
(* A worker whose initialization fails.  initializeOpenCascade returns     *)
(* false when its try block throws; oc is then still null.                 *)
(***************************************************************************)
InitFailed == "Failed to initialize CascadeStudio worker"

\* initializeOpenCascade().then(success => ... else
\*   parentPort.postMessage({ type: 'error', error: 'Failed to initialize ...' }))
WorkerBootFails(o) ==
  /\ worker[o].state = "starting"
  /\ worker' = [worker EXCEPT ![o].state = "failed"]
  /\ outbox' = [outbox EXCEPT ![o] = Append(@, CaughtResponse(InitFailed))]
  /\ UNCHANGED <<req, pc, result, outcome, roundTrips, activeWorkers, inbox, timer>>
  /\ UNCHANGED fnVars
  /\ UNCHANGED libVars
  /\ UNCHANGED apiVars

\* operations on workers that may fail to initialize
BootRequests ==
  {Request("executeScript", c, EmptyGUI, "") :
     c \in {<<SBox>>, <<SLog("log", "a")>>, <<SSlider("Size", 10)>>, <<SSlider("Size", 10), SBoxVar>>}}
  \cup { Request("exportSTEP", <<SBox>>, EmptyGUI, ""),
         Request("exportSTL", <<SBox>>, EmptyGUI, ""),
         Request("importFile", <<>>, EmptyGUI, "part.step") }

InitBoot == InitService(1, BootRequests)

NextBoot ==
  \/ \E o \in Ops : StartOp(o)
  \/ \E o \in Ops : Deliver(o)
  \/ \E o \in Ops : Timeout(o)
  \/ \E o \in Ops : WorkerError(o)
  \/ \E o \in Ops : AutoCleanup(o)
  \/ \E o \in Ops : WorkerBoot(o)
  \/ \E o \in Ops : WorkerBootFails(o)
  \/ \E o \in Ops : WorkerHandle(o)

\* the operations of BootRequests, each on a worker whose initialization
\* succeeds or fails
SpecBoot == InitBoot /\ [][NextBoot]_vars

MaxSends == 2

\* the messages it sends
SendMessages ==
  { EvaluateRequest(<<SBox>>, EmptyGUI),
    EvaluateRequest(<<SBox, SThrow("boom")>>, EmptyGUI),
    EvaluateRequest(<<SLoop>>, EmptyGUI),
    MeshRequest,
    StepRequest }

\* the last entry of roundTrips[o], settled
SettleTrip(o, response, how) ==
  [roundTrips EXCEPT ![o][Len(roundTrips[o])].response = response,
                     ![o][Len(roundTrips[o])].how = how]

\* sendWorkerMessage(workerInfo, m) up to its return of the promise: the
\* timer and the listeners are set and worker.postMessage(m) is called, which
\* does nothing on a thread that has stopped
SendHeld(o, m) ==
  /\ pc[o] = "held"
  /\ Len(roundTrips[o]) < MaxSends
  /\ pc' = [pc EXCEPT ![o] = "sending"]
  /\ roundTrips' = [roundTrips EXCEPT ![o] =
                      Append(@, [request |-> m.type, response |-> "", how |-> "pending"])]
  /\ inbox' = [inbox EXCEPT ![o] = IF worker[o].state \in Alive THEN Append(@, m) ELSE @]
  /\ UNCHANGED <<req, result, outcome, activeWorkers, worker, outbox, timer>>
  /\ UNCHANGED fnVars
  /\ UNCHANGED libVars
  /\ UNCHANGED apiVars

\* messageHandler of the pending call: clearTimeout, off, reject or resolve
DeliverSend(o) ==
  /\ pc[o] = "sending"
  /\ outbox[o] # <<>>
  /\ LET m == Head(outbox[o])
     IN  /\ roundTrips' = SettleTrip(o, m.type, IF ErrorTruthy(m) THEN "reject" ELSE "resolve")
         /\ result' = [result EXCEPT ![o] = m]
  /\ outbox' = [outbox EXCEPT ![o] = Tail(@)]
  /\ pc' = [pc EXCEPT ![o] = "held"]
  /\ UNCHANGED <<req, outcome, activeWorkers, worker, inbox, timer>>
  /\ UNCHANGED fnVars
  /\ UNCHANGED libVars
  /\ UNCHANGED apiVars

\* setTimeout(() => { reject(new Error('Worker operation timed out')) }, timeout)
TimeoutSend(o) ==
  /\ pc[o] = "sending"
  /\ roundTrips' = SettleTrip(o, "", "timeout")
  /\ pc' = [pc EXCEPT ![o] = "held"]
  /\ UNCHANGED <<req, result, outcome, activeWorkers, worker, inbox, outbox, timer>>
  /\ UNCHANGED fnVars
  /\ UNCHANGED libVars
  /\ UNCHANGED apiVars

\* errorHandler of the pending call: the thread has died of an uncaught
\* error; its entry stays in activeWorkers
ErrorSend(o) ==
  /\ pc[o] = "sending"
  /\ worker[o].state \in Alive
  /\ roundTrips' = SettleTrip(o, "", "error")
  /\ worker' = [worker EXCEPT ![o].state = "terminated"]
  /\ inbox' = [inbox EXCEPT ![o] = <<>>]
  /\ outbox' = [outbox EXCEPT ![o] = <<>>]
  /\ pc' = [pc EXCEPT ![o] = "held"]
  /\ UNCHANGED <<req, result, outcome, activeWorkers, timer>>
  /\ UNCHANGED fnVars
  /\ UNCHANGED libVars
  /\ UNCHANGED apiVars

\* a 'message' event of the worker while no sendWorkerMessage call listens
DropUnheard(o) ==
  /\ pc[o] = "held"
  /\ outbox[o] # <<>>
  /\ outbox' = [outbox EXCEPT ![o] = Tail(@)]
  /\ UNCHANGED <<req, pc, result, outcome, roundTrips, activeWorkers, worker, inbox, timer>>
  /\ UNCHANGED fnVars
  /\ UNCHANGED libVars
  /\ UNCHANGED apiVars

\* the caller calls terminateWorker(workerInfo.id)
Release(o) ==
  /\ pc[o] = "held"
  /\ worker[o].state # "none"
  /\ activeWorkers' = terminateWorker(activeWorkers, o)
  /\ worker' = TerminateThread(activeWorkers, worker, o)
  /\ inbox' = [inbox EXCEPT ![o] = IF o \in activeWorkers THEN <<>> ELSE @]
  /\ outbox' = [outbox EXCEPT ![o] = IF o \in activeWorkers THEN <<>> ELSE @]
  /\ UNCHANGED <<req, pc, result, outcome, roundTrips, timer>>
  /\ UNCHANGED fnVars
  /\ UNCHANGED libVars
  /\ UNCHANGED apiVars

InitSend == InitService(1, {Request("createWorker", <<>>, EmptyGUI, "")})

NextSend ==
  \/ \E o \in Ops : StartOp(o)
  \/ \E o \in Ops, m \in SendMessages : SendHeld(o, m)
  \/ \E o \in Ops : DeliverSend(o)
  \/ \E o \in Ops : TimeoutSend(o)
  \/ \E o \in Ops : ErrorSend(o)
  \/ \E o \in Ops : DropUnheard(o)
  \/ \E o \in Ops : Release(o)
  \/ Cleanup
  \/ \E o \in Ops : AutoCleanup(o)
  \/ \E o \in Ops : WorkerBoot(o)
  \/ \E o \in Ops : WorkerHandle(o)

\* one caller, one worker, up to MaxSends sendWorkerMessage calls
SpecSend == InitSend /\ [][NextSend]_vars


(***************************************************************************)
(* C31.  A worker answers a tessellate (combineAndRenderShapes) request    *)
(* with a mesh only if it has completed a successful evaluate before: the  *)
(* worker of an operation whose script faults never posts a                *)
(* combineAndRenderShapes message that carries meshData.                   *)
(***************************************************************************)
C31_MeshOnlyAfterSuccessfulEvaluate ==
  \A o \in Ops :
    req[o].kind \in ScriptKinds
    => \A k \in 1..Len(outbox[o]) :
         (outbox[o][k].type = "combineAndRenderShapes" /\ "meshData" \in outbox[o][k].has)
         => RunOf(o).status = "run"

(***************************************************************************)
(* C33.  The service never has more than one request outstanding on a      *)
(* worker: the next request is sent only after the worker has finished     *)
(* processing the previous one, so at most one request waits in the        *)
(* worker's queue, and the worker takes the requests in the order sent.    *)
(***************************************************************************)
C33_OneOutstandingRequest ==
  \A o \in Ops : Len(inbox[o]) <= 1

(***************************************************************************)
(* C35.  When evaluate reports a fault the operation stops there: the      *)
(* worker of an operation whose script faults is never sent a tessellate   *)
(* or export request and never answers one, so the shapes created before   *)
(* the fault are never meshed or exported.                                 *)
(***************************************************************************)
C35_FaultStopsOperation ==
  \A o \in Ops :
    (req[o].kind \in ScriptKinds /\ RunOf(o).status = "fault")
    => /\ \A k \in 1..Len(inbox[o]) :
            inbox[o][k].type \notin {"combineAndRenderShapes", "saveShapeSTEP"}
       /\ \A k \in 1..Len(outbox[o]) :
            outbox[o][k].type \notin {"combineAndRenderShapes", "saveShapeSTEP"}


(***************************************************************************)
(* C32.  Once a worker has been terminated (by release, timeout, lifetime  *)
(* timer or cleanup) it never leaves the terminated state and accepts no   *)
(* further message: a worker that terminateWorker has removed from         *)
(* activeWorkers is terminated, a terminated worker stays terminated, a    *)
(* request sent on its handle is not queued, and it posts no response.     *)
(***************************************************************************)
C32_TerminatedIsFinal ==
  /\ [](\A o \in Ops :
          (worker[o].state # "none" /\ o \notin activeWorkers)
          => worker[o].state = "terminated")
  /\ [][\A o \in Ops :
          worker[o].state = "terminated"
          => /\ worker'[o] = worker[o]
             /\ inbox'[o] = <<>>
             /\ outbox'[o] = <<>>]_vars

\* a request was sent on the handle of a terminated worker and timed out
C32_Witness ==
  \E o \in Ops :
    /\ worker[o].state = "terminated"
    /\ o \notin activeWorkers
    /\ roundTrips[o] # <<>>
    /\ roundTrips[o][Len(roundTrips[o])].how = "timeout"
    /\ inbox[o] = <<>>


(***************************************************************************)
(* C34.  When sendWorkerMessage fails with a timeout, the worker has been  *)
(* terminated by that call itself: in the step in which the pending call   *)
(* is rejected with the timeout error the worker is no longer alive and no *)
(* longer in activeWorkers, whatever the caller does afterwards.           *)
(***************************************************************************)
C34_TimeoutTerminatesWorker ==
  [][\A o \in Ops :
       (/\ roundTrips'[o] # roundTrips[o]
        /\ roundTrips'[o] # <<>>
        /\ roundTrips'[o][Len(roundTrips'[o])].how = "timeout")
       => /\ worker'[o].state \notin Alive
          /\ o \notin activeWorkers']_vars


(***************************************************************************)
(* C36.  During evaluate each call to a primitive or operation of the      *)
(* modeling vocabulary (Box, Sphere, Cylinder, Translate, Union,           *)
(* Difference) appends exactly one Shape to the ShapeSet, which starts     *)
(* empty: after a fault-free script made of such calls the ShapeSet has as *)
(* many shapes as the script has calls, and tessellate reports that number *)
(* as shapeCount.                                                          *)
(***************************************************************************)
C36_OneShapePerCall ==
  (fnPc \in {"evaluated", "meshed"} /\ RunScript(fnCode, EmptyGUI).status = "run")
  => /\ Len(fnShapes) = Len(fnCode)
     /\ fnPc = "meshed" => fnMesh.shapeCount = Len(fnCode)


(***************************************************************************)
(* C37.  The combined mesh is built by traversing the ShapeSet in creation *)
(* order: the vertices of shape k follow those of the shapes before it,    *)
(* and every index of shape k equals its shape-local index plus the total  *)
(* vertex count of the preceding shapes.                                   *)
(***************************************************************************)
\* floats in the vertex buffers of the first n shapes
RECURSIVE C37_FloatsBefore(_, _)
C37_FloatsBefore(shapes, n) ==
  IF n = 0 THEN 0
  ELSE C37_FloatsBefore(shapes, n - 1) + Len(ShapeVertices(shapes[n]))

\* indices of the first n shapes
RECURSIVE C37_IndicesBefore(_, _)
C37_IndicesBefore(shapes, n) ==
  IF n = 0 THEN 0
  ELSE C37_IndicesBefore(shapes, n - 1) + Len(ShapeIndices(shapes[n]))

C37_CombinedInCreationOrder ==
  fnPc = "meshed"
  => /\ Len(fnMesh.vertices) = C37_FloatsBefore(fnShapes, Len(fnShapes))
     /\ Len(fnMesh.indices) = C37_IndicesBefore(fnShapes, Len(fnShapes))
     /\ \A k \in 1..Len(fnShapes) :
          LET own == ApplyTranslation(fnShapes[k], ShapeVertices(fnShapes[k]))
              local == ShapeIndices(fnShapes[k])
              floats == C37_FloatsBefore(fnShapes, k - 1)
              first == C37_IndicesBefore(fnShapes, k - 1)
          IN  /\ \A j \in 1..Len(own) : fnMesh.vertices[floats + j] = own[j]
              /\ \A j \in 1..Len(local) :
                   fnMesh.indices[first + j] = local[j] + (floats \div 3)

\* three shapes meshed, the later ones with shifted indices
C37_Witness ==
  /\ fnPc = "meshed"
  /\ Len(fnShapes) = 3
  /\ fnShapes[1].type = "Sphere"
  /\ fnShapes[2].type = "Box"
  /\ fnMesh.indices[C37_IndicesBefore(fnShapes, 1) + 1]
       = BoxIndices[1] + (Len(SphereVertices(fnShapes[1])) \div 3)
  /\ fnMesh.indices[C37_IndicesBefore(fnShapes, 2) + 1] > ShapeIndices(fnShapes[3])[1]


(***************************************************************************)
(* C38.  For code that fails the syntax-only parse, validateScript         *)
(* returns normally with valid = FALSE and exactly one entry in errors,    *)
(* and still reports as usedFunctions the vocabulary names the scan finds  *)
(* in the text, each once, in order of first appearance.                   *)
(***************************************************************************)
\* the names of RegexNames followed by a parenthesis at position i or later
RECURSIVE C38_NamesFrom(_, _)
C38_NamesFrom(text, i) ==
  IF i > Len(text) THEN {}
  ELSE (IF text[i] \in RegexNames /\ ParenFollows(text, i + 1) THEN {text[i]} ELSE {})
       \cup C38_NamesFrom(text, i + 1)

C38_UnparsableCodeValidated ==
  (validation.called /\ ParseFails(validation.code))
  => LET v == validation.value
     IN  /\ v.valid = FALSE
         /\ Len(v.errors) = 1
         /\ {v.usedFunctions[k] : k \in 1..Len(v.usedFunctions)}
              = C38_NamesFrom(CodeText(validation.code), 1)
         /\ \A j, k \in 1..Len(v.usedFunctions) :
              j # k => v.usedFunctions[j] # v.usedFunctions[k]

\* unparsable code in which a vocabulary call was found
C38_Witness ==
  /\ validation.called
  /\ ParseFails(validation.code)
  /\ validation.value.valid = FALSE
  /\ validation.value.usedFunctions # <<>>


(***************************************************************************)
(* Operations and a caller holding a worker side by side, with the         *)
(* lifetime timers, cleanup() and terminateWorker called by the caller.    *)
(***************************************************************************)
TermOps == 2

TermRequests ==
  { Request("executeScript", <<SBox>>, EmptyGUI, ""),
    Request("createWorker", <<>>, EmptyGUI, "") }

InitTerm == InitService(TermOps, TermRequests)

NextTerm ==
  \/ \E o \in Ops : StartOp(o)
  \/ \E o \in Ops : Deliver(o)
  \/ \E o \in Ops : Timeout(o)
  \/ \E o \in Ops : WorkerError(o)
  \/ \E o \in Ops : AutoCleanup(o)
  \/ \E o \in Ops : Release(o)
  \/ \E o \in Ops : WorkerBoot(o)
  \/ \E o \in Ops : WorkerHandle(o)
  \/ Cleanup

SpecTerm == InitTerm /\ [][NextTerm]_vars

(***************************************************************************)
(* C39.  terminateWorker is idempotent and affects only its own worker: a  *)
(* call for an id that activeWorkers no longer holds (the lifetime timer   *)
(* firing after the operation released the worker, or a call after         *)
(* cleanup) changes nothing, and a call made for one operation never       *)
(* terminates or removes the worker of another.  In a step that is not     *)
(* cleanup(), the workers that stop or leave activeWorkers are at most the *)
(* one worker of the call, and only if activeWorkers held it.              *)
(***************************************************************************)
\* the workers a step stops or removes from activeWorkers
C39_Touched ==
  {p \in Ops : \/ worker'[p].state = "terminated" /\ worker[p].state # "terminated"
               \/ p \in activeWorkers /\ p \notin activeWorkers'}

\* the step is the call of cleanup()
C39_IsCleanup ==
  /\ Cardinality(activeWorkers) > 1
  /\ activeWorkers' = {}
  /\ pc' = pc
  /\ timer' = timer

C39_TerminateOwnWorkerOnly ==
  [][~C39_IsCleanup
     => /\ Cardinality(C39_Touched) <= 1
        /\ C39_Touched \subseteq activeWorkers
        /\ \A q \in Ops :
             (\/ pc'[q] \in Settled /\ pc[q] \notin Settled
              \/ timer[q] /\ ~timer'[q])
             => /\ C39_Touched \subseteq {q}
                /\ q \notin activeWorkers
                   => /\ worker' = worker
                      /\ activeWorkers' = activeWorkers
                      /\ inbox' = inbox
                      /\ outbox' = outbox]_vars

\* the lifetime timer of a settled operation has fired, a second call for
\* its id, while the worker of another operation is alive and registered
C39_Witness ==
  \E o, p \in Ops :
    /\ o # p
    /\ pc[o] \in Settled
    /\ ~timer[o]
    /\ worker[o].state = "terminated"
    /\ p \in activeWorkers
    /\ worker[p].state \in Alive

=============================================================================
